---- MODULE Spec2Model ----
(***************************************************************************)
(* LogLine Motor: the entity registry, the contract and idea stores, the   *)
(* DSL parser and its AST rendering, the ruleset evaluator, the simulation *)
(* engine, the command dispatcher, the plugin host and the HTTP gateway,   *)
(* as state machines.                                                      *)
(*                                                                         *)
(* Text is a sequence of one-character strings, so that the parser is      *)
(* modelled on characters, as the nom combinators of parser.rs work.       *)
(***************************************************************************)
EXTENDS Integers, Sequences, FiniteSets, TLC

VARIABLES
    now,        \* the wall clock read by Utc::now()
    registry,   \* REGISTRY: logical id -> Entity
    contracts,  \* CONTRACT_STORE: id -> Contract
    ideas,      \* IDEA_STORE: id -> Idea
    sim_store,  \* simulate MEM: entity id -> sequence of SimulationResult
    timeline,   \* the event timeline, in append order
    metrics_order, \* scenario name -> the order its metrics HashMap iterates in,
                \* for the scenarios this process has iterated
    input,      \* what the library under study is handed: a text, an AST to
                \* render, or an entity type and a simulation configuration
    parsed,     \* the parser's answer for input, not called before the call
    ret,        \* the last call: operation, arguments, returned value
    pre,        \* history: the stores as they were when the last call began
    lastOp,     \* history: per logical id, the last registry write on it
    origin,     \* history: per live contract and idea, the record its creation made
    runs,       \* history: what each call of run_simulation(_with_config) returned,
                \* the appends to the timeline in the order they were served,
                \* or the creations in the order they held the mutex
    plugins,    \* PLUGINS: plugin id -> Plugin
    plugin_dir, \* the plugin directory: file name -> contents of the file
    fs_events,  \* the channel from the notify callback to the watcher task
    threads,    \* the calls in flight: thread -> where it is and what it holds;
                \* the SSE subscribers: what each listens to and has received
    published   \* the events the broker accepted, in publish order

\* the plugin host, the calls in flight and the broker
host == <<plugins, plugin_dir, fs_events, threads, published>>

vars == <<now, registry, contracts, ideas, sim_store, timeline, metrics_order, input, parsed, ret, pre, lastOp, origin, runs, host>>

----------------------------------------------------------------------------
(* Bounds of the model *)

\* the clock takes the values 0..MaxTime
MaxTime == 2
\* process_command is taken while the timeline holds fewer events than this
MaxTimeline == 3

----------------------------------------------------------------------------
(* Characters *)

Upper == {"A","B","C","D","E","F","G","H","I","J","K","L","M",
          "N","O","P","Q","R","S","T","U","V","W","X","Y","Z"}
Lower == {"a","b","c","d","e","f","g","h","i","j","k","l","m",
          "n","o","p","q","r","s","t","u","v","w","x","y","z"}
Digit == {"0","1","2","3","4","5","6","7","8","9"}

\* char::is_alphanumeric, on the characters the model's texts are made of
Alphanumeric == Upper \cup Lower \cup Digit

\* nom multispace0 / multispace1: space, tab, carriage return, line feed
Multispace == {" ", "\t", "\r", "\n"}

\* str::trim: the White_Space characters (form feed is one, and is not multispace)
TrimSpace == Multispace \cup {"\f"}

\* the characters identifier() takes
IdentChars == Alphanumeric \cup {"_", "-", ".", "@"}

\* the characters clause() takes
ClauseChars == Alphanumeric \cup {"_", "-", " ", ".", ":", "(", ")", "[", "]", "$", "%", "@"}

DEFINE_ == <<"D","E","F","I","N","E">>
CONTRACT_ == <<"C","O","N","T","R","A","C","T">>
IDEA_ == <<"I","D","E","A">>
SIMULATE_ == <<"S","I","M","U","L","A","T","E">>
ENTITY_ == <<"E","N","T","I","T","Y">>
ORCHESTRATE_ == <<"O","R","C","H","E","S","T","R","A","T","E">>
INVOKE_ == <<"I","N","V","O","K","E">>
RULESET_ == <<"R","U","L","E","S","E","T">>
ON_ == <<"O","N">>

----------------------------------------------------------------------------
(* nom combinators: each returns [ok, rest, val]; ok = FALSE is Err::Error *)

Fail == [ok |-> FALSE]

Done(rest, val) == [ok |-> TRUE, rest |-> rest, val |-> val]

Drop(s, n) == SubSeq(s, n + 1, Len(s))

\* the length of the longest prefix of s made of characters of cs
PrefixLen(cs, s) ==
    CHOOSE n \in 0..Len(s) :
        /\ \A i \in 1..n : s[i] \in cs
        /\ n = Len(s) \/ s[n + 1] \notin cs

\* char::to_ascii_uppercase
to_ascii_uppercase(c) ==
    IF c \in Lower
    THEN LET k == CHOOSE i \in 1..26 :
                      <<"a","b","c","d","e","f","g","h","i","j","k","l","m",
                        "n","o","p","q","r","s","t","u","v","w","x","y","z">>[i] = c
         IN <<"A","B","C","D","E","F","G","H","I","J","K","L","M",
              "N","O","P","Q","R","S","T","U","V","W","X","Y","Z">>[k]
    ELSE c

\* tag written as tag_no_case: the keyword is matched in either case
tag_no_case(t, s) ==
    IF Len(s) >= Len(t) /\ [i \in 1..Len(t) |-> to_ascii_uppercase(s[i])] = t
    THEN Done(Drop(s, Len(t)), SubSeq(s, 1, Len(t)))
    ELSE Fail

tag(t, s) ==
    IF Len(s) >= Len(t) /\ SubSeq(s, 1, Len(t)) = t
    THEN Done(Drop(s, Len(t)), t)
    ELSE Fail

char(c, s) ==
    IF Len(s) >= 1 /\ s[1] = c THEN Done(Drop(s, 1), c) ELSE Fail

take_while(cs, s) ==
    LET n == PrefixLen(cs, s) IN Done(Drop(s, n), SubSeq(s, 1, n))

take_while1(cs, s) ==
    LET n == PrefixLen(cs, s) IN
    IF n = 0 THEN Fail ELSE Done(Drop(s, n), SubSeq(s, 1, n))

\* take_till(|c| c == stop)
take_till(stop, s) ==
    LET n == CHOOSE k \in 0..Len(s) :
                 /\ \A i \in 1..k : s[i] # stop
                 /\ k = Len(s) \/ s[k + 1] = stop
    IN Done(Drop(s, n), SubSeq(s, 1, n))

multispace0(s) == take_while(Multispace, s)

multispace1(s) == take_while1(Multispace, s)

digit1(s) == take_while1(Digit, s)

\* tuple((tag(a), multispace1, tag(b), multispace1))
keyword2(a, b, s) ==
    LET r1 == tag(a, s) IN
    IF ~r1.ok THEN Fail ELSE
    LET r2 == multispace1(r1.rest) IN
    IF ~r2.ok THEN Fail ELSE
    LET r3 == tag(b, r2.rest) IN
    IF ~r3.ok THEN Fail ELSE
    LET r4 == multispace1(r3.rest) IN
    IF ~r4.ok THEN Fail ELSE Done(r4.rest, <<a, b>>)

\* identifier(): take_while, so the empty identifier is taken too
identifier(s) == take_while(IdentChars, s)

\* clause(): take_while, so the empty clause is taken too
clause(s) == take_while(ClauseChars, s)

\* quoted_string(): delimited(char('"'), take_till(|c| c == '"'), char('"'))
quoted_string(s) ==
    LET r1 == char("\"", s) IN
    IF ~r1.ok THEN Fail ELSE
    LET r2 == take_till("\"", r1.rest) IN
    LET r3 == char("\"", r2.rest) IN
    IF ~r3.ok THEN Fail ELSE Done(r3.rest, r2.val)

DigitSeq == <<"0","1","2","3","4","5","6","7","8","9">>

DigitVal(c) == (CHOOSE k \in 1..10 : DigitSeq[k] = c) - 1

RECURSIVE DigitsValue(_)
DigitsValue(ds) ==
    IF ds = <<>> THEN 0
    ELSE 10 * DigitsValue(SubSeq(ds, 1, Len(ds) - 1)) + DigitVal(ds[Len(ds)])

\* usize::MAX on a 64-bit target, as its decimal digits
UsizeMaxDigits == <<"1","8","4","4","6","7","4","4","0","7","3","7","0","9","5","5","1","6","1","5">>

\* whether the digit string a (no leading zero) is a greater number than b
DigitsGreater(a, b) ==
    \/ Len(a) > Len(b)
    \/ /\ Len(a) = Len(b)
       /\ \E i \in 1..Len(a) :
              /\ DigitVal(a[i]) > DigitVal(b[i])
              /\ \A j \in 1..(i - 1) : a[j] = b[j]

\* map_res(digit1, |s| s.parse::<usize>()): an overflowing number is an error
usize_number(s) ==
    LET r == digit1(s) IN
    IF ~r.ok THEN Fail ELSE
    LET sig == Drop(r.val, PrefixLen({"0"}, r.val)) IN
    IF DigitsGreater(sig, UsizeMaxDigits) THEN Fail
    ELSE Done(r.rest, DigitsValue(sig))

\* tuple((multispace0, char(','), multispace0))
comma_sep(s) ==
    LET r1 == multispace0(s) IN
    LET r2 == char(",", r1.rest) IN
    IF ~r2.ok THEN Fail ELSE
    LET r3 == multispace0(r2.rest) IN Done(r3.rest, ",")

\* the loop of separated_list0(comma_sep, clause), after its first element
RECURSIVE separated_tail(_, _)
separated_tail(s, acc) ==
    LET rs == comma_sep(s) IN
    IF ~rs.ok THEN Done(s, acc) ELSE
    LET rc == clause(rs.rest) IN
    separated_tail(rc.rest, Append(acc, rc.val))

\* separated_list0(comma_sep, clause): clause never fails, so the list has
\* at least one element, which may be the empty clause
separated_list0(s) ==
    LET r == clause(s) IN separated_tail(r.rest, <<r.val>>)

(* The AST: Command::Imperative(Imperative { kind }) is the record [kind |-> k] *)

Imperative(k) == [kind |-> k]

define_contract(s) ==
    LET r0 == keyword2(DEFINE_, CONTRACT_, s) IN
    IF ~r0.ok THEN Fail ELSE
    LET r1 == identifier(r0.rest) IN
    LET r2 == multispace1(r1.rest) IN
    IF ~r2.ok THEN Fail ELSE
    LET r3 == separated_list0(r2.rest) IN
    Done(r3.rest, Imperative([tag |-> "DefineContract", id |-> r1.val, clauses |-> r3.val]))

define_idea(s) ==
    LET r0 == keyword2(DEFINE_, IDEA_, s) IN
    IF ~r0.ok THEN Fail ELSE
    LET r1 == identifier(r0.rest) IN
    LET r2 == multispace1(r1.rest) IN
    IF ~r2.ok THEN Fail ELSE
    LET r3 == quoted_string(r2.rest) IN
    IF ~r3.ok THEN Fail ELSE
    Done(r3.rest, Imperative([tag |-> "DefineIdea", id |-> r1.val, text |-> r3.val]))

simulate_entity(s) ==
    LET r0 == keyword2(SIMULATE_, ENTITY_, s) IN
    IF ~r0.ok THEN Fail ELSE
    LET r1 == identifier(r0.rest) IN
    LET r2 == multispace1(r1.rest) IN
    IF ~r2.ok THEN Fail ELSE
    LET r3 == usize_number(r2.rest) IN
    IF ~r3.ok THEN Fail ELSE
    Done(r3.rest, Imperative([tag |-> "SimulateEntity", id |-> r1.val, rounds |-> r3.val]))

orchestrate(s) ==
    LET r0 == tag(ORCHESTRATE_, s) IN
    IF ~r0.ok THEN Fail ELSE
    LET r1 == multispace1(r0.rest) IN
    IF ~r1.ok THEN Fail ELSE
    LET r2 == identifier(r1.rest) IN
    Done(r2.rest, Imperative([tag |-> "Orchestrate", mode |-> r2.val]))

invoke_ruleset(s) ==
    LET r0 == keyword2(INVOKE_, RULESET_, s) IN
    IF ~r0.ok THEN Fail ELSE
    LET r1 == identifier(r0.rest) IN
    LET r2 == multispace1(r1.rest) IN
    IF ~r2.ok THEN Fail ELSE
    LET r3 == tag(ON_, r2.rest) IN
    IF ~r3.ok THEN Fail ELSE
    LET r4 == multispace1(r3.rest) IN
    IF ~r4.ok THEN Fail ELSE
    LET r5 == identifier(r4.rest) IN
    Done(r5.rest, Imperative([tag |-> "InvokeRuleset", entity_id |-> r5.val, ruleset_id |-> r1.val]))

\* alt((define_contract, define_idea, simulate_entity, orchestrate, invoke_ruleset))
imperative(s) ==
    IF define_contract(s).ok THEN define_contract(s)
    ELSE IF define_idea(s).ok THEN define_idea(s)
    ELSE IF simulate_entity(s).ok THEN simulate_entity(s)
    ELSE IF orchestrate(s).ok THEN orchestrate(s)
    ELSE invoke_ruleset(s)

\* map(imperative, Command::Imperative)
command(s) == imperative(s)

\* rest.trim().is_empty()
TrimIsEmpty(s) == \A i \in 1..Len(s) : s[i] \in TrimSpace

NotConsumed == "Entrada não foi totalmente consumida. Restante: '"

\* parse_command without the test of the rest: what command() leaves is dropped
parse_command_any_rest(s) ==
    LET r == command(s) IN
    IF r.ok
    THEN [ok |-> TRUE, cmd |-> r.val]
    ELSE [ok |-> FALSE, err |-> <<"nom::Err::Error">>]

parse_command(s) ==
    LET r == command(s) IN
    IF r.ok
    THEN IF TrimIsEmpty(r.rest)
         THEN [ok |-> TRUE, cmd |-> r.val]
         ELSE [ok |-> FALSE, err |-> <<NotConsumed, r.rest, "'">>]
    ELSE [ok |-> FALSE, err |-> <<"nom::Err::Error">>]

\* parse(): the error becomes Error::Syntax("Erro de sintaxe: {e}")
parse(s) ==
    LET r == parse_command(s) IN
    IF r.ok THEN r ELSE [ok |-> FALSE, err |-> <<"Erro de sintaxe: ">> \o r.err]

----------------------------------------------------------------------------
(* The texts handed to the parser *)

Q == <<"\"">>

\* identifiers used in texts
IdA == <<"a">>
IdB == <<"b">>
IdLong == <<"i","d","-","0","_","1",".","x","@","Z">>

\* whitespace between two tokens
Gaps == {<<" ">>, <<" ", " ">>, <<"\t">>, <<"\r", "\n">>}

\* whitespace before a command
Leads == {<<>>, <<" ">>, <<" ", " ">>, <<"\n">>}

\* what follows a command: nothing, whitespace, or text that is no whitespace
Trails == {<<>>, <<" ">>, <<" ", " ">>, <<"\n">>, <<"\f">>,
           <<" ", "x">>, <<"x">>, <<"!">>, <<" ", "!">>, <<"\t", "5">>}

\* a command text: its form, its characters, and the characters that its last
\* token goes on taking when they follow it directly
Body(form, text, absorb) == [form |-> form, text |-> text, absorb |-> absorb]

ContractBodies ==
    { Body("DefineContract",
           DEFINE_ \o g \o CONTRACT_ \o g \o id \o g \o cl, ClauseChars) :
        g \in Gaps, id \in {IdA, IdLong},
        cl \in {<<"c">>, <<"c","1",","," ","c","2">>, <<"p"," ","q"," ",","," ","r">>} }

IdeaBodies ==
    { Body("DefineIdea",
           DEFINE_ \o g \o IDEA_ \o g \o id \o g \o Q \o t \o Q, {}) :
        g \in Gaps, id \in {IdA, IdLong}, t \in {<<>>, <<"t">>, <<"U","m"," ","t",",","!">>} }

SimulateBodies ==
    { Body("SimulateEntity",
           SIMULATE_ \o g \o ENTITY_ \o g \o id \o g \o n, Digit) :
        g \in Gaps, id \in {IdA, IdLong}, n \in {<<"0">>, <<"5">>, <<"0","1","2">>} }

OrchestrateBodies ==
    { Body("Orchestrate", ORCHESTRATE_ \o g \o m, IdentChars) :
        g \in Gaps, m \in {<<"p","a","r","a","l","l","e","l">>, <<"s","e","q">>} }

InvokeBodies ==
    { Body("InvokeRuleset",
           INVOKE_ \o g \o RULESET_ \o g \o r \o g \o ON_ \o g \o e, IdentChars) :
        g \in Gaps, r \in {<<"b","a","s","i","c","-","c","h","e","c","k">>, IdA}, e \in {IdA, IdLong} }

ValidBodies ==
    ContractBodies \cup IdeaBodies \cup SimulateBodies \cup OrchestrateBodies \cup InvokeBodies

Lowered(c) ==
    LET k == CHOOSE i \in 1..26 :
                 <<"A","B","C","D","E","F","G","H","I","J","K","L","M",
                   "N","O","P","Q","R","S","T","U","V","W","X","Y","Z">>[i] = c
    IN <<"a","b","c","d","e","f","g","h","i","j","k","l","m",
         "n","o","p","q","r","s","t","u","v","w","x","y","z">>[k]

\* the text with the first n characters in lower case
LowerFirst(text, n) ==
    [i \in 1..Len(text) |-> IF i <= n /\ text[i] \in Upper THEN Lowered(text[i]) ELSE text[i]]

\* commands whose keywords are then written in lower case
LowerCaseSources ==
    { DEFINE_ \o <<" ">> \o CONTRACT_ \o <<" ">> \o IdA \o <<" ", "c">>,
      DEFINE_ \o <<" ">> \o IDEA_ \o <<" ">> \o IdA \o <<" ">> \o Q \o <<"t">> \o Q,
      SIMULATE_ \o <<" ">> \o ENTITY_ \o <<" ">> \o IdA \o <<" ", "5">>,
      ORCHESTRATE_ \o <<" ", "s", "e", "q">>,
      INVOKE_ \o <<" ">> \o RULESET_ \o <<" ">> \o IdA \o <<" ">> \o ON_ \o <<" ">> \o IdA }

\* texts that are no command
InvalidTexts ==
    { <<>>,
      <<"I","N","V","A","L","I","D"," ","C","O","M","M","A","N","D">>,
      DEFINE_,
      DEFINE_ \o <<" ">> \o IdA \o <<" ">> \o Q \o Q,
      DEFINE_ \o <<" ">> \o <<"F","O","O">> \o <<" ">> \o IdA \o <<" ">> \o IdB,
      DEFINE_ \o CONTRACT_ \o <<" ">> \o IdA \o <<" ">> \o IdB,
      DEFINE_ \o <<" ">> \o CONTRACT_ \o <<"x"," ">> \o IdA \o <<" ">> \o IdB,
      DEFINE_ \o <<" ">> \o IDEA_ \o <<" ">> \o IdA \o <<" ">> \o IdB,
      DEFINE_ \o <<" ">> \o IDEA_ \o <<" ">> \o IdA \o <<" ">> \o Q \o IdB,
      SIMULATE_ \o <<" ">> \o IdA \o <<" ", "5">>,
      SIMULATE_ \o <<" ">> \o ENTITY_ \o <<" ">> \o IdA \o <<" ">> \o IdB,
      ORCHESTRATE_ \o IdA,
      ORCHESTRATE_,
      INVOKE_ \o <<" ">> \o IdA \o <<" ">> \o ON_ \o <<" ">> \o IdB,
      INVOKE_ \o <<" ">> \o RULESET_ \o <<" ">> \o IdA \o <<" ">> \o IdB,
      INVOKE_ \o <<" ">> \o RULESET_ \o <<" ">> \o IdA \o <<" ", "o", "n", " ">> \o IdB }
    \cup { LowerFirst(t, n) : t \in LowerCaseSources, n \in {1, 6, 20} }

InvalidBodies == { Body("none", t, {}) : t \in InvalidTexts }

Inputs ==
    [lead : Leads, body : ValidBodies \cup InvalidBodies, trail : Trails]

\* the text of an input
Text(in) == in.lead \o in.body.text \o in.trail

NoInput == [lead |-> <<>>, body |-> Body("none", <<>>, {}), trail |-> <<>>]

NotCalled == [called |-> FALSE]

----------------------------------------------------------------------------
(* Values shared by the components *)

\* Result::Ok(v) and Result::Err(message); a message is the sequence of the
\* pieces format! joins
Ok(v) == [ok |-> TRUE, val |-> v]

Err(msg) == [ok |-> FALSE, err |-> msg]

Unit == <<>>

Range(f) == { f[x] : x \in DOMAIN f }

\* HashMap::new()
EmptyMap == [k \in {} |-> {}]

\* HashMap::insert(k, v): the entry of k is created or replaced
Put(m, k, v) == [x \in DOMAIN m \cup {k} |-> IF x = k THEN v ELSE m[x]]

\* HashMap::remove(k)
Remove(m, k) == [x \in DOMAIN m \ {k} |-> m[x]]

\* the orders in which a HashMap of these keys may be iterated
IterationOrders(keys) ==
    { o \in [1..Cardinality(keys) -> keys] : \A k \in keys : \E i \in DOMAIN o : o[i] = k }

\* logical ids and entity types the callers use
EntityIds == {IdA, IdB}

EntityTypes == {"CONTRACT", "IDEA", "TEST"}

\* the values Utc::now() may return in a call that begins at time t
Clock(t) == { u \in t..(t + 1) : u <= MaxTime }

----------------------------------------------------------------------------
(* The registry: registry/src/lib.rs *)

\* register_entity written with entry().or_insert(): a present entry stays
register_entity_or_insert(reg, logical_id, entity_type, time) ==
    LET entity == [logical_id |-> logical_id, entity_type |-> entity_type, created_at |-> time]
    IN [reg |-> IF logical_id \in DOMAIN reg THEN reg ELSE Put(reg, logical_id, entity),
        res |-> Ok(logical_id)]

\* register_entity refusing a present id, as create_contract does
register_entity_refuse(reg, logical_id, entity_type, time) ==
    LET entity == [logical_id |-> logical_id, entity_type |-> entity_type, created_at |-> time]
    IN IF logical_id \in DOMAIN reg
       THEN [reg |-> reg, res |-> Err(<<"Entidade já existe: ", logical_id>>)]
       ELSE [reg |-> Put(reg, logical_id, entity), res |-> Ok(logical_id)]

register_entity(reg, logical_id, entity_type, time) ==
    LET entity == [logical_id |-> logical_id, entity_type |-> entity_type, created_at |-> time]
    IN [reg |-> Put(reg, logical_id, entity), res |-> Ok(logical_id)]

\* fetch_entity answering for an absent id as for a registered one
fetch_entity_found(reg, id) ==
    IF id \in DOMAIN reg
    THEN Ok(<<reg[id].logical_id, reg[id].entity_type>>)
    ELSE Ok(<<id, "TEST">>)

fetch_entity(reg, id) ==
    IF id \in DOMAIN reg
    THEN Ok(<<reg[id].logical_id, reg[id].entity_type>>)
    ELSE Err(<<"Entidade não encontrada: ", id>>)

\* order: the iteration order of the HashMap in this call
list_entities_by_type(reg, entity_type, order) ==
    Ok(SelectSeq(order, LAMBDA id : reg[id].entity_type = entity_type))

\* remove_entity written with contains_key(): the entry stays
remove_entity_contains(reg, id) ==
    [reg |-> reg, res |-> Ok(id \in DOMAIN reg)]

remove_entity(reg, id) ==
    [reg |-> Remove(reg, id), res |-> Ok(id \in DOMAIN reg)]

\* the stores as a call finds them
Snapshot ==
    [registry |-> registry, contracts |-> contracts, ideas |-> ideas,
     sim_store |-> sim_store, timeline |-> timeline, lastOp |-> lastOp,
     plugins |-> plugins, published |-> published]

RegisterEntity(id, t) ==
    \E time \in Clock(now) :
        LET r == register_entity(registry, id, t, time) IN
        /\ now' = time
        /\ registry' = r.reg
        /\ ret' = [op |-> "register_entity", id |-> id, type |-> t, res |-> r.res]
        /\ lastOp' = [lastOp EXCEPT ![id] = [op |-> "register", type |-> t]]
        /\ pre' = Snapshot
        /\ UNCHANGED <<metrics_order, runs, host>>
        /\ UNCHANGED <<contracts, ideas, sim_store, timeline, input, parsed, origin>>

FetchEntity(id) ==
    /\ ret' = [op |-> "fetch_entity", id |-> id, res |-> fetch_entity(registry, id)]
    /\ pre' = Snapshot
    /\ UNCHANGED <<metrics_order, runs, host>>
    /\ UNCHANGED <<now, registry, contracts, ideas, sim_store, timeline, input, parsed, lastOp, origin>>

ListEntitiesByType(t) ==
    \E order \in IterationOrders(DOMAIN registry) :
        /\ ret' = [op |-> "list_entities_by_type", type |-> t,
                   res |-> list_entities_by_type(registry, t, order)]
        /\ pre' = Snapshot
        /\ UNCHANGED <<metrics_order, runs, host>>
        /\ UNCHANGED <<now, registry, contracts, ideas, sim_store, timeline, input, parsed, lastOp, origin>>

RemoveEntity(id) ==
    LET r == remove_entity(registry, id) IN
    /\ registry' = r.reg
    /\ ret' = [op |-> "remove_entity", id |-> id, res |-> r.res]
    /\ lastOp' = [lastOp EXCEPT ![id] = [op |-> "remove"]]
    /\ pre' = Snapshot
    /\ UNCHANGED <<metrics_order, runs, host>>
    /\ UNCHANGED <<now, contracts, ideas, sim_store, timeline, input, parsed, origin>>

NoCall == [op |-> "none"]

\* PLUGINS after Lazy::new, the plugin directory just created, no watcher
\* event, no call in flight and nothing published
HostInit ==
    /\ plugins = EmptyMap
    /\ plugin_dir = EmptyMap
    /\ fs_events = [watching |-> FALSE, queue |-> <<>>]
    /\ threads = EmptyMap
    /\ published = <<>>

Init ==
    /\ now = 0
    /\ registry = EmptyMap
    /\ contracts = EmptyMap
    /\ ideas = EmptyMap
    /\ sim_store = EmptyMap
    /\ timeline = <<>>
    /\ metrics_order = EmptyMap
    /\ runs = <<>>
    /\ HostInit
    /\ input = NoInput
    /\ parsed = NotCalled
    /\ ret = NoCall
    /\ lastOp = [id \in EntityIds |-> [op |-> "none"]]
    /\ origin = [contracts |-> EmptyMap, ideas |-> EmptyMap]
    /\ pre = [registry |-> EmptyMap, contracts |-> EmptyMap, ideas |-> EmptyMap,
              sim_store |-> EmptyMap, timeline |-> <<>>,
              lastOp |-> [id \in EntityIds |-> [op |-> "none"]]]

NextRegistry ==
    \/ \E id \in EntityIds, t \in EntityTypes : RegisterEntity(id, t)
    \/ \E id \in EntityIds : FetchEntity(id)
    \/ \E t \in EntityTypes : ListEntitiesByType(t)
    \/ \E id \in EntityIds : RemoveEntity(id)

SpecRegistry == Init /\ [][NextRegistry]_vars

----------------------------------------------------------------------------
(* The contract store: contracts/src/lib.rs.  CONTRACT_STORE.lock() fails   *)
(* only on a poisoned mutex, and no holder of the lock panics.             *)

StoreIds == {IdA, IdB}

ClauseLists == { <<(<<"c">>)>>, <<(<<"c", "1">>), (<<"c", "2">>)>> }

IdeaTexts == { <<"t">>, <<"U", "m", " ", "t">> }

\* create_contract without the contains_key check: insert replaces
create_contract_overwrite(store, id, clauses, time) ==
    LET contract == [id |-> id, clauses |-> clauses, created_at |-> time, updated_at |-> time]
    IN [store |-> Put(store, id, contract), res |-> Ok(Unit)]

\* create_contract written with entry().or_insert(): a present contract
\* stays and the call succeeds
create_contract_or_insert(store, id, clauses, time) ==
    LET contract == [id |-> id, clauses |-> clauses, created_at |-> time, updated_at |-> time]
    IN [store |-> IF id \in DOMAIN store THEN store ELSE Put(store, id, contract),
        res |-> Ok(Unit)]

create_contract(store, id, clauses, time) ==
    LET contract == [id |-> id, clauses |-> clauses, created_at |-> time, updated_at |-> time]
    IN IF id \in DOMAIN store
       THEN [store |-> store, res |-> Err(<<"Contrato com ID '", id, "' já existe">>)]
       ELSE [store |-> Put(store, id, contract), res |-> Ok(Unit)]

get_contract(store, id) ==
    IF id \in DOMAIN store
    THEN Ok(<<store[id].id, store[id].clauses, store[id].created_at>>)
    ELSE Err(<<"Contrato com ID '", id, "' não encontrado">>)

\* order: the iteration order of the HashMap in this call
list_contracts(store, order) == Ok(order)

\* update_contract written as an upsert: an absent id gets a new contract
update_contract_upsert(store, id, clauses, time) ==
    IF id \in DOMAIN store
    THEN [store |-> [store EXCEPT ![id].clauses = clauses, ![id].updated_at = time],
          res |-> Ok(Unit)]
    ELSE [store |-> Put(store, id, [id |-> id, clauses |-> clauses, created_at |-> time,
                                    updated_at |-> time]),
          res |-> Ok(Unit)]

update_contract(store, id, clauses, time) ==
    IF id \in DOMAIN store
    THEN [store |-> [store EXCEPT ![id].clauses = clauses, ![id].updated_at = time],
          res |-> Ok(Unit)]
    ELSE [store |-> store, res |-> Err(<<"Contrato com ID '", id, "' não encontrado">>)]

(* The idea store: ideas/src/lib.rs *)

\* create_idea with the contains_key test inverted
create_idea_inverted(store, id, text, time) ==
    LET idea == [id |-> id, text |-> text, created_at |-> time, updated_at |-> time,
                 tags |-> <<>>]
    IN IF id \notin DOMAIN store
       THEN [store |-> store, res |-> Err(<<"Ideia com ID '", id, "' já existe">>)]
       ELSE [store |-> Put(store, id, idea), res |-> Ok(Unit)]

create_idea(store, id, text, time) ==
    LET idea == [id |-> id, text |-> text, created_at |-> time, updated_at |-> time,
                 tags |-> <<>>]
    IN IF id \in DOMAIN store
       THEN [store |-> store, res |-> Err(<<"Ideia com ID '", id, "' já existe">>)]
       ELSE [store |-> Put(store, id, idea), res |-> Ok(Unit)]

get_idea(store, id) ==
    IF id \in DOMAIN store
    THEN Ok(<<store[id].id, store[id].text, store[id].created_at>>)
    ELSE Err(<<"Ideia com ID '", id, "' não encontrada">>)

\* order: the iteration order of the HashMap in this call
list_ideas(store, order) == Ok(order)

update_idea(store, id, text, time) ==
    IF id \in DOMAIN store
    THEN [store |-> [store EXCEPT ![id].text = text, ![id].updated_at = time],
          res |-> Ok(Unit)]
    ELSE [store |-> store, res |-> Err(<<"Ideia com ID '", id, "' não encontrada">>)]

\* add_tags lines 130-134: the tags of the call that the list does not hold
\* are pushed one by one
RECURSIVE push_absent(_, _)
push_absent(idea_tags, tags) ==
    IF tags = <<>>
    THEN idea_tags
    ELSE push_absent(IF Head(tags) \in Range(idea_tags)
                     THEN idea_tags
                     ELSE Append(idea_tags, Head(tags)),
                     Tail(tags))

\* the tags of the call that the list did not hold when the call began
absent_at_entry(idea_tags, tags) ==
    SelectSeq(tags, LAMBDA new_tag : new_tag \notin Range(idea_tags))

\* add_tags testing each tag against the list as it was when the call began
add_tags_entry_test(store, id, tags, time) ==
    IF id \in DOMAIN store
    THEN [store |-> [store EXCEPT ![id].tags = @ \o absent_at_entry(@, tags),
                                  ![id].updated_at = time],
          res |-> Ok(Unit)]
    ELSE [store |-> store, res |-> Err(<<"Ideia com ID '", id, "' não encontrada">>)]

add_tags(store, id, tags, time) ==
    IF id \in DOMAIN store
    THEN [store |-> [store EXCEPT ![id].tags = push_absent(@, tags),
                                  ![id].updated_at = time],
          res |-> Ok(Unit)]
    ELSE [store |-> store, res |-> Err(<<"Ideia com ID '", id, "' não encontrada">>)]

remove_idea(store, id) ==
    IF id \in DOMAIN store
    THEN [store |-> Remove(store, id), res |-> Ok(Unit)]
    ELSE [store |-> store, res |-> Err(<<"Ideia com ID '", id, "' não encontrada">>)]

(* History of the stores: what a successful creation made, and whether the *)
(* record has been updated since                                           *)

OriginCreated(o, r, store, id) ==
    IF r.res.ok THEN Put(o, id, [rec |-> r.store[id], updated |-> FALSE]) ELSE o

OriginUpdated(o, r, id) ==
    IF r.res.ok THEN [o EXCEPT ![id].updated = TRUE] ELSE o

OriginRemoved(o, r, id) ==
    IF r.res.ok THEN Remove(o, id) ELSE o

CreateContract(id, clauses) ==
    \E time \in Clock(now) :
        LET r == create_contract(contracts, id, clauses, time) IN
        /\ now' = time
        /\ contracts' = r.store
        /\ ret' = [op |-> "create_contract", id |-> id, payload |-> clauses, res |-> r.res]
        /\ origin' = [origin EXCEPT !.contracts = OriginCreated(@, r, contracts, id)]
        /\ pre' = Snapshot
        /\ UNCHANGED <<metrics_order, runs, host>>
        /\ UNCHANGED <<registry, ideas, sim_store, timeline, input, parsed, lastOp>>

GetContract(id) ==
    /\ ret' = [op |-> "get_contract", id |-> id, res |-> get_contract(contracts, id)]
    /\ pre' = Snapshot
    /\ UNCHANGED <<metrics_order, runs, host>>
    /\ UNCHANGED <<now, registry, contracts, ideas, sim_store, timeline, input, parsed,
                   lastOp, origin>>

ListContracts ==
    \E order \in IterationOrders(DOMAIN contracts) :
        /\ ret' = [op |-> "list_contracts", res |-> list_contracts(contracts, order)]
        /\ pre' = Snapshot
        /\ UNCHANGED <<metrics_order, runs, host>>
        /\ UNCHANGED <<now, registry, contracts, ideas, sim_store, timeline, input, parsed,
                       lastOp, origin>>

UpdateContract(id, clauses) ==
    \E time \in Clock(now) :
        LET r == update_contract(contracts, id, clauses, time) IN
        \* Utc::now() is read only when the contract is found
        /\ now' = IF r.res.ok THEN time ELSE now
        /\ contracts' = r.store
        /\ ret' = [op |-> "update_contract", id |-> id, payload |-> clauses, res |-> r.res]
        /\ origin' = [origin EXCEPT !.contracts = OriginUpdated(@, r, id)]
        /\ pre' = Snapshot
        /\ UNCHANGED <<metrics_order, runs, host>>
        /\ UNCHANGED <<registry, ideas, sim_store, timeline, input, parsed, lastOp>>

CreateIdea(id, text) ==
    \E time \in Clock(now) :
        LET r == create_idea(ideas, id, text, time) IN
        /\ now' = time
        /\ ideas' = r.store
        /\ ret' = [op |-> "create_idea", id |-> id, payload |-> text, res |-> r.res]
        /\ origin' = [origin EXCEPT !.ideas = OriginCreated(@, r, ideas, id)]
        /\ pre' = Snapshot
        /\ UNCHANGED <<metrics_order, runs, host>>
        /\ UNCHANGED <<registry, contracts, sim_store, timeline, input, parsed, lastOp>>

GetIdea(id) ==
    /\ ret' = [op |-> "get_idea", id |-> id, res |-> get_idea(ideas, id)]
    /\ pre' = Snapshot
    /\ UNCHANGED <<metrics_order, runs, host>>
    /\ UNCHANGED <<now, registry, contracts, ideas, sim_store, timeline, input, parsed,
                   lastOp, origin>>

ListIdeas ==
    \E order \in IterationOrders(DOMAIN ideas) :
        /\ ret' = [op |-> "list_ideas", res |-> list_ideas(ideas, order)]
        /\ pre' = Snapshot
        /\ UNCHANGED <<metrics_order, runs, host>>
        /\ UNCHANGED <<now, registry, contracts, ideas, sim_store, timeline, input, parsed,
                       lastOp, origin>>

UpdateIdea(id, text) ==
    \E time \in Clock(now) :
        LET r == update_idea(ideas, id, text, time) IN
        /\ now' = IF r.res.ok THEN time ELSE now
        /\ ideas' = r.store
        /\ ret' = [op |-> "update_idea", id |-> id, payload |-> text, res |-> r.res]
        /\ origin' = [origin EXCEPT !.ideas = OriginUpdated(@, r, id)]
        /\ pre' = Snapshot
        /\ UNCHANGED <<metrics_order, runs, host>>
        /\ UNCHANGED <<registry, contracts, sim_store, timeline, input, parsed, lastOp>>

RemoveIdea(id) ==
    LET r == remove_idea(ideas, id) IN
    /\ ideas' = r.store
    /\ ret' = [op |-> "remove_idea", id |-> id, res |-> r.res]
    /\ origin' = [origin EXCEPT !.ideas = OriginRemoved(@, r, id)]
    /\ pre' = Snapshot
    /\ UNCHANGED <<metrics_order, runs, host>>
    /\ UNCHANGED <<now, registry, contracts, sim_store, timeline, input, parsed, lastOp>>

ContractCalls == {"create_contract", "get_contract", "list_contracts", "update_contract"}

IdeaCalls == {"create_idea", "get_idea", "list_ideas", "update_idea", "remove_idea"}

\* CONTRACT_STORE and IDEA_STORE are separate statics and no function reads
\* both: a behaviour of SpecStores is a sequence of calls to one of the two
\* libraries, chosen by its first call
OnContracts == ret.op \in {"none"} \cup ContractCalls

OnIdeas == ret.op \in {"none"} \cup IdeaCalls

NextStores ==
    \/ \E id \in StoreIds, cl \in ClauseLists : OnContracts /\ CreateContract(id, cl)
    \/ \E id \in StoreIds : OnContracts /\ GetContract(id)
    \/ OnContracts /\ ListContracts
    \/ \E id \in StoreIds, cl \in ClauseLists : OnContracts /\ UpdateContract(id, cl)
    \/ \E id \in StoreIds, t \in IdeaTexts : OnIdeas /\ CreateIdea(id, t)
    \/ \E id \in StoreIds : OnIdeas /\ GetIdea(id)
    \/ OnIdeas /\ ListIdeas
    \/ \E id \in StoreIds, t \in IdeaTexts : OnIdeas /\ UpdateIdea(id, t)
    \/ \E id \in StoreIds : OnIdeas /\ RemoveIdea(id)

SpecStores == Init /\ [][NextStores]_vars

(* The tags of the ideas: create_idea, update_idea, add_tags, remove_idea *)

\* the slices of tags a call passes: empty, one tag, a tag twice, a tag
\* twice around another one
TagLists == { <<>>, <<"x">>, <<"x", "x">>, <<"y", "x", "y">> }

AddTags(id, tags) ==
    \E time \in Clock(now) :
        LET r == add_tags(ideas, id, tags, time) IN
        \* Utc::now() is read only when the idea is found
        /\ now' = IF r.res.ok THEN time ELSE now
        /\ ideas' = r.store
        /\ ret' = [op |-> "add_tags", id |-> id, payload |-> tags, res |-> r.res]
        /\ origin' = [origin EXCEPT !.ideas = OriginUpdated(@, r, id)]
        /\ pre' = Snapshot
        /\ UNCHANGED <<metrics_order, runs, host>>
        /\ UNCHANGED <<registry, contracts, sim_store, timeline, input, parsed, lastOp>>

NextTags ==
    \/ \E id \in StoreIds : CreateIdea(id, <<"t">>)
    \/ \E id \in StoreIds, t \in IdeaTexts : UpdateIdea(id, t)
    \/ \E id \in StoreIds, tags \in TagLists : AddTags(id, tags)
    \/ \E id \in StoreIds : RemoveIdea(id)

SpecTags == Init /\ [][NextTags]_vars

----------------------------------------------------------------------------
(* The parser called on a text: parser/src/lib.rs *)

\* parse() is a function of its text alone: a behaviour is one call of it
InitParser ==
    /\ input \in Inputs
    /\ parsed = NotCalled
    /\ now = 0
    /\ registry = EmptyMap
    /\ contracts = EmptyMap
    /\ ideas = EmptyMap
    /\ sim_store = EmptyMap
    /\ timeline = <<>>
    /\ metrics_order = EmptyMap
    /\ runs = <<>>
    /\ HostInit
    /\ ret = NoCall
    /\ lastOp = [id \in EntityIds |-> [op |-> "none"]]
    /\ origin = [contracts |-> EmptyMap, ideas |-> EmptyMap]
    /\ pre = [registry |-> EmptyMap, contracts |-> EmptyMap, ideas |-> EmptyMap,
              sim_store |-> EmptyMap, timeline |-> <<>>,
              lastOp |-> [id \in EntityIds |-> [op |-> "none"]]]

Parse ==
    /\ ~parsed.called
    /\ parsed' = [called |-> TRUE, res |-> parse(Text(input))]
    /\ ret' = [op |-> "parse"]
    /\ pre' = Snapshot
    /\ UNCHANGED <<metrics_order, runs, host>>
    /\ UNCHANGED <<now, registry, contracts, ideas, sim_store, timeline, input, lastOp, origin>>

NextParser == Parse

SpecParser == InitParser /\ [][NextParser]_vars

----------------------------------------------------------------------------
(* Display for Imperative: parser/src/ast.rs *)

\* usize rendered by {}: its decimal digits, without leading zeros
RECURSIVE usize_to_string(_)
usize_to_string(n) ==
    IF n < 10 THEN <<DigitSeq[n + 1]>>
    ELSE usize_to_string(n \div 10) \o <<DigitSeq[(n % 10) + 1]>>

\* [String]::join(sep)
RECURSIVE join(_, _)
join(strs, sep) ==
    IF strs = <<>> THEN <<>>
    ELSE IF Len(strs) = 1 THEN strs[1]
    ELSE strs[1] \o sep \o join(Tail(strs), sep)

\* <Imperative as Display>::fmt
fmt(imp) ==
    LET k == imp.kind IN
    CASE k.tag = "DefineContract" ->
             DEFINE_ \o <<" ">> \o CONTRACT_ \o <<" ">> \o k.id \o <<" ">>
                 \o join(k.clauses, <<",", " ">>)
      [] k.tag = "DefineIdea" ->
             DEFINE_ \o <<" ">> \o IDEA_ \o <<" ">> \o k.id \o <<" ">> \o Q \o k.text \o Q
      [] k.tag = "SimulateEntity" ->
             SIMULATE_ \o <<" ">> \o ENTITY_ \o <<" ">> \o k.id \o <<" ">>
                 \o usize_to_string(k.rounds)
      [] k.tag = "Orchestrate" ->
             ORCHESTRATE_ \o <<" ">> \o k.mode
      [] k.tag = "InvokeRuleset" ->
             INVOKE_ \o <<" ">> \o RULESET_ \o <<" ">> \o k.ruleset_id \o <<" ">>
                 \o ON_ \o <<" ">> \o k.entity_id

\* the AST values rendered: identifiers of ident, clauses of clause (a clause
\* may begin or end with a space), texts without a quotation mark, numbers
AstIds == {IdA, IdB, IdLong}

AstClauseLists ==
    { <<<<"c">>>>, <<<<"c","1">>, <<"c","2">>>>, <<<<"p"," ","q">>, <<"r">>>>,
      <<<<>>>>, <<<<"c">>, <<>>>>, <<<<"c"," ">>, <<"d">>>>,
      <<<<"c">>, <<" ","d">>>>, <<<<" ","c">>>> }

AstTexts == {<<>>, <<"t">>, <<"U","m"," ","t",",","!">>}

AstRounds == {0, 1, 5, 12, 100}

AstModes == {<<"p","a","r","a","l","l","e","l">>, <<"s","e","q">>, IdLong}

Asts ==
    { Imperative([tag |-> "DefineContract", id |-> id, clauses |-> cl]) :
          id \in AstIds, cl \in AstClauseLists }
    \cup { Imperative([tag |-> "DefineIdea", id |-> id, text |-> t]) :
               id \in AstIds, t \in AstTexts }
    \cup { Imperative([tag |-> "SimulateEntity", id |-> id, rounds |-> n]) :
               id \in AstIds, n \in AstRounds }
    \cup { Imperative([tag |-> "Orchestrate", mode |-> m]) : m \in AstModes }
    \cup { Imperative([tag |-> "InvokeRuleset", entity_id |-> e, ruleset_id |-> r]) :
               e \in AstIds, r \in {<<"r","-","1">>, IdA} }

\* a behaviour renders one AST and parses the rendered text
InitRoundTrip ==
    /\ input \in { [ast |-> a] : a \in Asts }
    /\ parsed = NotCalled
    /\ now = 0
    /\ registry = EmptyMap
    /\ contracts = EmptyMap
    /\ ideas = EmptyMap
    /\ sim_store = EmptyMap
    /\ timeline = <<>>
    /\ metrics_order = EmptyMap
    /\ runs = <<>>
    /\ HostInit
    /\ ret = NoCall
    /\ lastOp = [id \in EntityIds |-> [op |-> "none"]]
    /\ origin = [contracts |-> EmptyMap, ideas |-> EmptyMap]
    /\ pre = [registry |-> EmptyMap, contracts |-> EmptyMap, ideas |-> EmptyMap,
              sim_store |-> EmptyMap, timeline |-> <<>>,
              lastOp |-> [id \in EntityIds |-> [op |-> "none"]]]

RenderAndParse ==
    /\ ~parsed.called
    /\ parsed' = [called |-> TRUE, text |-> fmt(input.ast), res |-> parse(fmt(input.ast))]
    /\ ret' = [op |-> "parse"]
    /\ pre' = Snapshot
    /\ UNCHANGED <<metrics_order, runs, host>>
    /\ UNCHANGED <<now, registry, contracts, ideas, sim_store, timeline, input, lastOp, origin>>

NextRoundTrip == RenderAndParse

SpecRoundTrip == InitRoundTrip /\ [][NextRoundTrip]_vars

----------------------------------------------------------------------------
(* The ruleset evaluator: ruleset/src/lib.rs, ruleset/src/rules.rs *)

AlwaysAcceptId == <<"a","l","w","a","y","s","-","a","c","c","e","p","t">>

AlwaysRejectId == <<"a","l","w","a","y","s","-","r","e","j","e","c","t">>

BasicCheckId == <<"b","a","s","i","c","-","c","h","e","c","k">>

\* str::contains
Contains(s, pattern) ==
    \E i \in 0..(Len(s) - Len(pattern)) : SubSeq(s, i + 1, i + Len(pattern)) = pattern

\* Rule::evaluate
evaluate(rule, content) ==
    CASE rule.tag = "AlwaysAccept" -> "Accepted"
      [] rule.tag = "AlwaysReject" -> "Rejected"
      [] rule.tag = "ContentCheck" ->
             IF Contains(content, rule.pattern) THEN "Accepted" ELSE "Rejected"

\* the content is the same text for every entity id
fetch_entity_content(entity_id) ==
    Ok(<<"T","h","i","s"," ","i","s"," ","a"," ","t","e","s","t"," ","e","n","t","i","t","y"," ","w","i","t","h"," ","i","m","p","o","r","t","a","n","t"," ","c","o","n","t","e","n","t">>)

\* apply_ruleset with the fallback arm giving Rule::AlwaysReject
apply_ruleset_fallback_reject(ruleset_id, entity_id) ==
    LET rule == IF ruleset_id = AlwaysAcceptId THEN [tag |-> "AlwaysAccept"]
                ELSE IF ruleset_id = AlwaysRejectId THEN [tag |-> "AlwaysReject"]
                ELSE IF ruleset_id = BasicCheckId
                     THEN [tag |-> "ContentCheck", field |-> <<"t","e","x","t">>,
                           pattern |-> <<"i","m","p","o","r","t","a","n","t">>]
                ELSE [tag |-> "AlwaysReject"]
        entity_content == fetch_entity_content(entity_id)
    IN IF ~entity_content.ok THEN entity_content
       ELSE Ok(evaluate(rule, entity_content.val))

apply_ruleset(ruleset_id, entity_id) ==
    LET rule == IF ruleset_id = AlwaysAcceptId THEN [tag |-> "AlwaysAccept"]
                ELSE IF ruleset_id = AlwaysRejectId THEN [tag |-> "AlwaysReject"]
                ELSE IF ruleset_id = BasicCheckId
                     THEN [tag |-> "ContentCheck", field |-> <<"t","e","x","t">>,
                           pattern |-> <<"i","m","p","o","r","t","a","n","t">>]
                ELSE [tag |-> "AlwaysAccept"]
        entity_content == fetch_entity_content(entity_id)
    IN IF ~entity_content.ok THEN entity_content
       ELSE Ok(evaluate(rule, entity_content.val))

\* the ruleset ids the callers pass: the three of the catalog, and others
RulesetIds ==
    {AlwaysAcceptId, AlwaysRejectId, BasicCheckId, IdA, <<>>,
     <<"a","l","w","a","y","s","-","a","c","c","e","p","t","s">>,
     <<"A","L","W","A","Y","S","-","R","E","J","E","C","T">>}

\* the texts of the ideas the rulesets are applied to
ContentTexts == IdeaTexts \cup {<<"i","m","p","o","r","t","a","n","t">>}

ApplyRuleset(ruleset_id, entity_id) ==
    /\ ret' = [op |-> "apply_ruleset", ruleset_id |-> ruleset_id, entity_id |-> entity_id,
               res |-> apply_ruleset(ruleset_id, entity_id)]
    /\ pre' = Snapshot
    /\ UNCHANGED <<metrics_order, runs, host>>
    /\ UNCHANGED <<now, registry, contracts, ideas, sim_store, timeline, input, parsed,
                   lastOp, origin>>

\* rulesets applied to the ids of ideas, created and registered or not
NextRuleset ==
    \/ \E rid \in RulesetIds, eid \in EntityIds : ApplyRuleset(rid, eid)
    \/ \E id \in StoreIds, t \in ContentTexts : CreateIdea(id, t)
    \/ \E id \in EntityIds : RegisterEntity(id, "IDEA")

SpecRuleset == Init /\ [][NextRuleset]_vars

----------------------------------------------------------------------------
(* The simulation: simulate/src/lib.rs, engine.rs, scenarios.rs,           *)
(* store/mem.rs.  An f64 is kept in thousandths, as an integer.  The id    *)
(* (Uuid::new_v4) and the timestamp of a result are read by no operation   *)
(* and are left out of it.                                                 *)

\* Option::None and Option::Some(v)
None == [some |-> FALSE]

Some(v) == [some |-> TRUE, val |-> v]

\* the static SCENARIOS: per scenario the metrics (name -> (min, max)), the
\* events with their probability and the modifiers with their factor and
\* their condition
SCENARIOS ==
    [high_performance |->
        [name |-> "high_performance",
         metrics |-> [success_rate |-> <<900, 1000>>,
                      processing_time |-> <<5000, 50000>>,
                      resource_usage |-> <<100, 400>>],
         events |-> << [name |-> "process_start", probability |-> 1000],
                       [name |-> "optimization_applied", probability |-> 800],
                       [name |-> "process_complete", probability |-> 950] >>,
         modifiers |-> << [metric |-> "processing_time", factor |-> 800,
                           condition |-> "event:optimization_applied"] >>],
     low_performance |->
        [name |-> "low_performance",
         metrics |-> [success_rate |-> <<400, 700>>,
                      processing_time |-> <<200000, 800000>>,
                      resource_usage |-> <<700, 950>>],
         events |-> << [name |-> "process_start", probability |-> 900],
                       [name |-> "resource_exhausted", probability |-> 600],
                       [name |-> "process_timeout", probability |-> 400],
                       [name |-> "process_complete", probability |-> 600] >>,
         modifiers |-> << [metric |-> "success_rate", factor |-> 500,
                           condition |-> "event:resource_exhausted"],
                          [metric |-> "processing_time", factor |-> 1500,
                           condition |-> "metrics.resource_usage > 0.85"] >>],
     normal |->
        [name |-> "normal",
         metrics |-> [success_rate |-> <<700, 900>>,
                      processing_time |-> <<50000, 200000>>,
                      resource_usage |-> <<400, 700>>],
         events |-> << [name |-> "process_start", probability |-> 1000],
                       [name |-> "validation_complete", probability |-> 800],
                       [name |-> "process_complete", probability |-> 850] >>,
         modifiers |-> <<>>]]

\* load_scenario: SCENARIOS.get(name).map(Scenario::new)
load_scenario(name) ==
    IF name \in DOMAIN SCENARIOS THEN Some(SCENARIOS[name]) ELSE None

\* str::to_uppercase on the entity types of this model
to_uppercase(entity_type) ==
    CASE entity_type = "contract" -> "CONTRACT"
      [] entity_type = "idea" -> "IDEA"
      [] OTHER -> entity_type

\* default_scenario_for_type matching the entity type as it is registered
default_scenario_for_type_exact(entity_type) ==
    IF entity_type = "CONTRACT"
    THEN load_scenario("high_performance").val
    ELSE load_scenario("normal").val

\* default_scenario_for_type; both scenarios are in the static catalog
default_scenario_for_type(entity_type) ==
    CASE to_uppercase(entity_type) = "CONTRACT" -> load_scenario("high_performance").val
      [] to_uppercase(entity_type) = "IDEA" -> load_scenario("normal").val
      [] OTHER -> load_scenario("normal").val

\* the names of the metrics of every scenario, and the orders in which a
\* HashMap of them may iterate
MetricNames == {"success_rate", "processing_time", "resource_usage"}

MetricOrders == IterationOrders(MetricNames)

\* the values a generator's word takes: a word w stands for the fraction
\* w / Grain of the unit interval
Grain == 4

\* the seeds given in a configuration, or drawn by StdRng::from_entropy
Seeds == {12345, 54321}

\* StdRng: the word at a position of the stream of a seed.  The stream is a
\* function of the seed; this function stands for the generator's
Word(rng) ==
    ((rng.seed \div 3) + rng.pos * (1 + (rng.seed % 5)) + ((rng.pos * rng.pos) \div 2)) % Grain

\* Rng::gen_range(lo..hi) on f64: one word is drawn
gen_range(rng, lo, hi) ==
    [rng |-> [rng EXCEPT !.pos = @ + 1], val |-> lo + (((hi - lo) * Word(rng)) \div Grain)]

\* Rng::gen_bool(p): Bernoulli of probability 1.0 answers true and draws no
\* word; otherwise one word is drawn and compared with p
gen_bool(rng, p) ==
    IF p >= 1000 THEN [rng |-> rng, val |-> TRUE]
    ELSE [rng |-> [rng EXCEPT !.pos = @ + 1], val |-> Word(rng) * 1000 < p * Grain]

\* SimulationEngine::new: the generator is seeded by the configuration's
\* seed, or from entropy when it has none
SimulationEngine_new(config, entropy) ==
    [rng |-> [seed |-> IF config.random_seed.some THEN config.random_seed.val ELSE entropy,
              pos |-> 0],
     mode |-> config.mode]

\* format!("{}:entity={}", name, entity_id)
EventText(name, entity_id) == <<name, ":entity=", entity_id>>

\* insert_midpoints giving the metric visited last the minimum of its range
RECURSIVE insert_midpoints_last_min(_, _, _)
insert_midpoints_last_min(metrics, scenario_metrics, order) ==
    IF order = <<>> THEN metrics
    ELSE LET range == scenario_metrics[Head(order)] IN
         insert_midpoints_last_min(
             Put(metrics, Head(order),
                 IF Len(order) = 1 THEN range[1] ELSE (range[1] + range[2]) \div 2),
             scenario_metrics, Tail(order))

\* run_deterministic_simulation, its loop over &scenario.metrics in the
\* order the map iterates in: each metric is the midpoint of its range
RECURSIVE insert_midpoints(_, _, _)
insert_midpoints(metrics, scenario_metrics, order) ==
    IF order = <<>> THEN metrics
    ELSE LET range == scenario_metrics[Head(order)] IN
         insert_midpoints(Put(metrics, Head(order), (range[1] + range[2]) \div 2),
                          scenario_metrics, Tail(order))

\* run_deterministic_simulation, its loop over &scenario.events
RECURSIVE push_certain_events(_, _, _)
push_certain_events(events, scenario_events, entity_id) ==
    IF scenario_events = <<>> THEN events
    ELSE LET event == Head(scenario_events) IN
         push_certain_events(IF event.probability >= 1000
                             THEN Append(events, EventText(event.name, entity_id))
                             ELSE events,
                             Tail(scenario_events), entity_id)

run_deterministic_simulation(engine, result, scenario, order) ==
    [engine |-> engine,
     result |-> [result EXCEPT
                    !.metrics = insert_midpoints(@, scenario.metrics, order),
                    !.events = push_certain_events(@, scenario.events, result.entity_id)]]

\* run_scenario_simulation, its loop over &scenario.metrics in the order the
\* map iterates in: the words go to the metrics in that order
RECURSIVE draw_metrics(_, _, _, _)
draw_metrics(rng, metrics, scenario_metrics, order) ==
    IF order = <<>> THEN [rng |-> rng, metrics |-> metrics]
    ELSE LET range == scenario_metrics[Head(order)]
             value == gen_range(rng, range[1], range[2])
         IN draw_metrics(value.rng, Put(metrics, Head(order), value.val),
                         scenario_metrics, Tail(order))

\* run_scenario_simulation, its loop over &scenario.events
RECURSIVE draw_events(_, _, _, _)
draw_events(rng, events, scenario_events, entity_id) ==
    IF scenario_events = <<>> THEN [rng |-> rng, events |-> events]
    ELSE LET event == Head(scenario_events)
             happens == gen_bool(rng, event.probability)
         IN draw_events(happens.rng,
                        IF happens.val
                        THEN Append(events, EventText(event.name, entity_id))
                        ELSE events,
                        Tail(scenario_events), entity_id)

\* run_scenario_simulation, its loop over &scenario.modifiers: the condition
\* of a modifier is not read
RECURSIVE apply_modifiers(_, _)
apply_modifiers(metrics, modifiers) ==
    IF modifiers = <<>> THEN metrics
    ELSE LET modifier == Head(modifiers) IN
         apply_modifiers(IF modifier.metric \in DOMAIN metrics
                         THEN [metrics EXCEPT ![modifier.metric] = (@ * modifier.factor) \div 1000]
                         ELSE metrics,
                         Tail(modifiers))

\* the modifiers whose condition names an event that was emitted, or a
\* bound on resource_usage that the metrics meet
Conditioned(metrics, emitted, entity_id, modifiers) ==
    SelectSeq(modifiers,
              LAMBDA modifier :
                  CASE modifier.condition = "event:optimization_applied" ->
                           \E i \in DOMAIN emitted :
                               emitted[i] = EventText("optimization_applied", entity_id)
                    [] modifier.condition = "event:resource_exhausted" ->
                           \E i \in DOMAIN emitted :
                               emitted[i] = EventText("resource_exhausted", entity_id)
                    [] OTHER -> metrics["resource_usage"] > 850)

\* with_modifiers reading the condition of each modifier
with_modifiers_conditional(engine, result, metrics, events, modifiers) ==
    [engine |-> [engine EXCEPT !.rng = events.rng],
     result |-> [result EXCEPT
                    !.metrics = apply_modifiers(metrics,
                                                Conditioned(metrics, events.events,
                                                            result.entity_id, modifiers)),
                    !.events = events.events]]

\* the end of run_random_simulation and run_scenario_simulation: the
\* generator is left where the draws ended, the metrics are modified
with_modifiers(engine, result, metrics, events, modifiers) ==
    [engine |-> [engine EXCEPT !.rng = events.rng],
     result |-> [result EXCEPT !.metrics = apply_modifiers(metrics, modifiers),
                               !.events = events.events]]

\* the events are drawn after the metrics, drawn being the metrics and the
\* generator after them
with_events(engine, result, drawn, scenario_events, modifiers) ==
    with_modifiers(engine, result, drawn.metrics,
                   draw_events(drawn.rng, result.events, scenario_events, result.entity_id),
                   modifiers)

\* the ranges, the order and the events of run_random_simulation
RandomMetrics ==
    [success_rate |-> <<500, 1000>>, processing_time |-> <<10000, 500000>>,
     resource_usage |-> <<100, 900>>]

RandomOrder == <<"success_rate", "processing_time", "resource_usage">>

RandomEvents ==
    << [name |-> "process_start", probability |-> 700],
       [name |-> "validation_complete", probability |-> 500],
       [name |-> "resource_allocation", probability |-> 300] >>

\* run_random_simulation: three gen_range in the order written, then three
\* gen_bool; nothing is modified
run_random_simulation(engine, result) ==
    with_events(engine, result,
                draw_metrics(engine.rng, result.metrics, RandomMetrics, RandomOrder),
                RandomEvents, <<>>)

run_scenario_simulation(engine, result, scenario, order) ==
    with_events(engine, result,
                draw_metrics(engine.rng, result.metrics, scenario.metrics, order),
                scenario.events, scenario.modifiers)

\* the end of simulate_round: the status becomes Success
finish_round(run) ==
    [engine |-> run.engine, res |-> Ok([run.result EXCEPT !.status = "Success"])]

\* the SimulationResult simulate_round begins with
new_result(entity_id, round) ==
    [entity_id |-> entity_id, round |-> round, metrics |-> EmptyMap,
     events |-> <<>>, status |-> "InProgress"]

\* SimulationEngine::simulate_round; order is the iteration order of
\* scenario.metrics.  Returns the engine and Ok(result)
simulate_round(engine, entity_id, scenario, round, order) ==
    finish_round(
        CASE engine.mode = "Deterministic" ->
                 run_deterministic_simulation(engine, new_result(entity_id, round),
                                              scenario, order)
          [] engine.mode = "Random" ->
                 run_random_simulation(engine, new_result(entity_id, round))
          [] engine.mode = "Scenario" ->
                 run_scenario_simulation(engine, new_result(entity_id, round),
                                         scenario, order))

\* save_simulation_result keeping the last result alone
save_simulation_result_replace(mem, result) ==
    Put(mem, result.entity_id, <<result>>)

\* store::save_simulation_result: entry(entity_id).or_default().push(result)
save_simulation_result(mem, result) ==
    Put(mem, result.entity_id,
        Append(IF result.entity_id \in DOMAIN mem THEN mem[result.entity_id] ELSE <<>>,
               result))

\* the loop of run_simulation_with_config over the rounds from..rounds;
\* save_round is the rest of its body after simulate_round returned round
RECURSIVE simulation_rounds(_, _, _, _, _, _, _, _)
RECURSIVE save_round(_, _, _, _, _, _, _, _)
save_round(round, mem, entity_id, scenario, from, rounds, results, order) ==
    simulation_rounds(round.engine, save_simulation_result(mem, round.res.val),
                      entity_id, scenario, from + 1, rounds,
                      Append(results, round.res.val), order)

simulation_rounds(engine, mem, entity_id, scenario, from, rounds, results, order) ==
    IF from > rounds THEN [mem |-> mem, res |-> Ok(results)]
    ELSE save_round(simulate_round(engine, entity_id, scenario, from, order),
                    mem, entity_id, scenario, from, rounds, results, order)

\* the scenario of run_simulation_with_config: the configuration's, or the
\* default of the entity type
scenario_of(entity_type, config) ==
    IF config.scenario.some
    THEN LET loaded == load_scenario(config.scenario.val) IN
         IF loaded.some THEN Ok(loaded.val)
         ELSE Err(<<"Cenário ", config.scenario.val, " não encontrado">>)
    ELSE Ok(default_scenario_for_type(entity_type))

\* entropy is the seed StdRng::from_entropy draws, order the iteration order
\* of the scenario's metrics.  Returns the store and the result
run_simulation_with_config(reg, mem, entity_id, config, entropy, order) ==
    LET fetched == fetch_entity(reg, entity_id) IN
    IF ~fetched.ok
    THEN [mem |-> mem, res |-> Err(<<"Erro do registro: ">> \o fetched.err)]
    ELSE LET engine == SimulationEngine_new(config, entropy)
             scenario == scenario_of(fetched.val[2], config)
         IN IF ~scenario.ok THEN [mem |-> mem, res |-> scenario]
            ELSE simulation_rounds(engine, mem, entity_id, scenario.val, 1, config.rounds,
                                   <<>>, order)

\* SimulationConfig::default()
SimulationConfig_default ==
    [mode |-> "Random", rounds |-> 10, random_seed |-> None,
     metrics |-> <<"success_rate", "processing_time", "resource_usage">>,
     scenario |-> None]

\* the default configuration iterates no scenario's metrics
run_simulation(reg, mem, entity_id, rounds, entropy) ==
    run_simulation_with_config(reg, mem, entity_id,
                               [SimulationConfig_default EXCEPT !.rounds = rounds],
                               entropy, <<>>)

\* success_rates counting every result, with a success_rate or without
RECURSIVE success_rates_count_all(_, _, _)
success_rates_count_all(results, total_success_rate, count) ==
    IF results = <<>> THEN [total |-> total_success_rate, count |-> count]
    ELSE IF "success_rate" \in DOMAIN Head(results).metrics
         THEN success_rates_count_all(Tail(results),
                                      total_success_rate + Head(results).metrics["success_rate"],
                                      count + 1)
         ELSE success_rates_count_all(Tail(results), total_success_rate, count + 1)

\* evaluate_simulation, its loop: the sum and the number of the
\* success_rate values
RECURSIVE success_rates(_, _, _)
success_rates(results, total_success_rate, count) ==
    IF results = <<>> THEN [total |-> total_success_rate, count |-> count]
    ELSE IF "success_rate" \in DOMAIN Head(results).metrics
         THEN success_rates(Tail(results),
                            total_success_rate + Head(results).metrics["success_rate"],
                            count + 1)
         ELSE success_rates(Tail(results), total_success_rate, count)

\* evaluate_simulation: the score is the fraction num / den of thousandths
evaluate_simulation(results) ==
    IF results = <<>> THEN [num |-> 0, den |-> 1]
    ELSE LET s == success_rates(results, 0, 0) IN
         IF s.count = 0 THEN [num |-> 0, den |-> 1]
         ELSE [num |-> s.total, den |-> s.count]

----------------------------------------------------------------------------
(* The simulation library called on one entity under one configuration *)

\* the rounds asked for are 0..MaxRounds
MaxRounds == 2
\* run_simulation and run_simulation_with_config are called MaxRuns times
MaxRuns == 2

SimulationModes == {"Deterministic", "Random", "Scenario"}

\* the configurations handed to run_simulation_with_config; "missing" names
\* no scenario of the catalog
SimulationConfigs ==
    [mode : SimulationModes,
     rounds : 0..MaxRounds,
     random_seed : {None, Some(12345)},
     metrics : {<<"success_rate", "processing_time">>},
     scenario : {None, Some("low_performance"), Some("missing")}]

SimulationInputs == [entity_type : {"TEST", "CONTRACT"}, config : SimulationConfigs]

InitSimulate ==
    /\ input \in SimulationInputs
    /\ parsed = NotCalled
    /\ now = 0
    /\ registry = EmptyMap
    /\ contracts = EmptyMap
    /\ ideas = EmptyMap
    /\ sim_store = EmptyMap
    /\ timeline = <<>>
    /\ metrics_order = EmptyMap
    /\ runs = <<>>
    /\ HostInit
    /\ ret = NoCall
    /\ lastOp = [id \in EntityIds |-> [op |-> "none"]]
    /\ origin = [contracts |-> EmptyMap, ideas |-> EmptyMap]
    /\ pre = [registry |-> EmptyMap, contracts |-> EmptyMap, ideas |-> EmptyMap,
              sim_store |-> EmptyMap, timeline |-> <<>>,
              lastOp |-> [id \in EntityIds |-> [op |-> "none"]]]

\* the scenarios whose metrics map a call iterates: none in Random mode,
\* without a round, or when the call fails before its rounds
IteratedScenarios(reg, entity_id, config) ==
    IF /\ entity_id \in DOMAIN reg
       /\ config.mode # "Random"
       /\ config.rounds > 0
       /\ scenario_of(reg[entity_id].entity_type, config).ok
    THEN {scenario_of(reg[entity_id].entity_type, config).val.name}
    ELSE {}

\* a map of the static SCENARIOS iterates in one order as long as the
\* process lives: a clone keeps the hasher and the layout of its original
SameProcessOrder(names, order) ==
    \A name \in names : name \in DOMAIN metrics_order => metrics_order[name] = order

\* a call returned r, having iterated the metrics of the scenarios names
Returned(op, entity_id, config, r, names, order) ==
    /\ sim_store' = r.mem
    /\ ret' = [op |-> op, id |-> entity_id, config |-> config, res |-> r.res]
    /\ runs' = Append(runs, [op |-> op, id |-> entity_id, config |-> config, res |-> r.res,
                              order |-> IF names = {} THEN <<>> ELSE order])
    /\ metrics_order' = [name \in DOMAIN metrics_order \cup names |->
                            IF name \in names THEN order ELSE metrics_order[name]]
    /\ pre' = Snapshot
    /\ UNCHANGED <<now, registry, contracts, ideas, timeline, input, parsed, lastOp, origin, host>>

RunSimulationWithConfig(entity_id, config) ==
    /\ Len(runs) < MaxRuns
    /\ \E entropy \in Seeds, order \in MetricOrders :
           /\ SameProcessOrder(IteratedScenarios(registry, entity_id, config), order)
           /\ Returned("run_simulation_with_config", entity_id, config,
                       run_simulation_with_config(registry, sim_store, entity_id, config,
                                                  entropy, order),
                       IteratedScenarios(registry, entity_id, config), order)

RunSimulation(entity_id, rounds) ==
    /\ Len(runs) < MaxRuns
    /\ \E entropy \in Seeds :
           Returned("run_simulation", entity_id,
                    [SimulationConfig_default EXCEPT !.rounds = rounds],
                    run_simulation(registry, sim_store, entity_id, rounds, entropy),
                    {}, <<>>)

\* the results without their success_rate metric
WithoutRate(results) ==
    [i \in DOMAIN results |-> [results[i] EXCEPT !.metrics = Remove(@, "success_rate")]]

\* the results, the first of them without its success_rate metric
FirstWithoutRate(results) ==
    [i \in DOMAIN results |-> IF i = 1 THEN WithoutRate(results)[1] ELSE results[i]]

\* the result lists handed to evaluate_simulation: the empty list, the
\* stored results of the entity as they are and with success_rate missing
\* in all or in the first of them
EvaluationInputs(entity_id) ==
    {<<>>} \cup
    (IF entity_id \in DOMAIN sim_store
     THEN {sim_store[entity_id], WithoutRate(sim_store[entity_id]),
           FirstWithoutRate(sim_store[entity_id])}
     ELSE {})

EvaluateSimulation(results) ==
    /\ ret' = [op |-> "evaluate_simulation", results |-> results,
               res |-> evaluate_simulation(results)]
    /\ pre' = Snapshot
    /\ UNCHANGED <<now, registry, contracts, ideas, sim_store, timeline, metrics_order,
                   input, parsed, lastOp, origin, runs, host>>

\* the process ends and the program is started again: the statics REGISTRY,
\* MEM and SCENARIOS are built anew
Restart ==
    /\ registry # EmptyMap
    /\ registry' = EmptyMap
    /\ sim_store' = EmptyMap
    /\ metrics_order' = EmptyMap
    /\ lastOp' = [id \in EntityIds |-> [op |-> "none"]]
    /\ ret' = [op |-> "restart"]
    /\ pre' = Snapshot
    /\ UNCHANGED <<now, contracts, ideas, timeline, input, parsed, origin, runs, host>>

\* the caller registers the entity once in a process, and asks run_simulation
\* for as many rounds as the configuration names
NextSimulate ==
    \/ IdA \notin DOMAIN registry /\ RegisterEntity(IdA, input.entity_type)
    \/ RunSimulationWithConfig(IdA, input.config)
    \/ RunSimulation(IdA, input.config.rounds)
    \/ \E results \in EvaluationInputs(IdA) : EvaluateSimulation(results)
    \/ Restart

SpecSimulate == InitSimulate /\ [][NextSimulate]_vars

\* the simulation of entities of several types, in the mode that shows the
\* scenario chosen: a deterministic round holds the midpoints of its ranges
ScenarioInputs ==
    [entity_type : {"CONTRACT", "IDEA", "TEST", "contract"},
     config : [mode : {"Deterministic"},
               rounds : 0..MaxRounds,
               random_seed : {None},
               metrics : {<<"success_rate", "processing_time">>},
               scenario : {None, Some("low_performance"), Some("missing")}]]

InitScenario ==
    /\ input \in ScenarioInputs
    /\ parsed = NotCalled
    /\ now = 0
    /\ registry = EmptyMap
    /\ contracts = EmptyMap
    /\ ideas = EmptyMap
    /\ sim_store = EmptyMap
    /\ timeline = <<>>
    /\ metrics_order = EmptyMap
    /\ runs = <<>>
    /\ HostInit
    /\ ret = NoCall
    /\ lastOp = [id \in EntityIds |-> [op |-> "none"]]
    /\ origin = [contracts |-> EmptyMap, ideas |-> EmptyMap]
    /\ pre = [registry |-> EmptyMap, contracts |-> EmptyMap, ideas |-> EmptyMap,
              sim_store |-> EmptyMap, timeline |-> <<>>,
              lastOp |-> [id \in EntityIds |-> [op |-> "none"]],
              plugins |-> EmptyMap, published |-> <<>>]

SpecScenario == InitScenario /\ [][NextSimulate]_vars

----------------------------------------------------------------------------
(* The HTTP gateway: logline_api/src/api.rs.  EventBroker and its Event are  *)
(* the streaming crate, which follows section 4.5 of the specification; a    *)
(* storage failure of process_command follows section 7.                     *)

ApiError(variant, text) == [variant |-> variant, text |-> text]

\* handle_rejection, for a rejection that carries an ApiError: the status
\* code of the answer and the prefix of its message
handle_rejection(api_error, time) ==
    CASE api_error.variant = "CommandProcessingError" ->
             [status |-> 400,
              body |-> [status |-> 400, timestamp |-> time,
                        message |-> <<"Erro ao processar comando: ", api_error.text>>]]
      [] api_error.variant = "InvalidCommandFormat" ->
             [status |-> 400,
              body |-> [status |-> 400, timestamp |-> time,
                        message |-> <<"Formato de comando inválido: ", api_error.text>>]]
      [] api_error.variant = "InternalError" ->
             [status |-> 500,
              body |-> [status |-> 500, timestamp |-> time,
                        message |-> <<"Erro interno do servidor: ", api_error.text>>]]

\* streaming::Event::new(kind, payload).with_channels(channels)
with_channels(kind, payload, channels) ==
    [kind |-> kind, payload |-> payload, channels |-> channels]

\* EventBroker::publish: the event joins what the broker has published,
\* unless the broker fails
publish(broker, event, publish_ok) ==
    IF publish_ok THEN [broker |-> Append(broker, event), res |-> Ok(Unit)]
    ELSE [broker |-> broker, res |-> Err("publish")]

\* handle_dsl, lines 139-148: the event is handed to the broker, whose
\* failure is logged, and the response is the answer
published_response(response, event, broker, publish_ok) ==
    [status |-> 200, body |-> response, attempts |-> <<event>>,
     broker |-> publish(broker, event, publish_ok).broker]

\* handle_dsl, lines 133-141: the event command_executed of a response
command_executed(response, broker, publish_ok) ==
    published_response(response,
                       with_channels("command_executed", response, {"commands", "default"}),
                       broker, publish_ok)

\* handle_dsl with `broker.publish(event).await?`: a failing publish is an
\* internal error
handle_dsl_propagate(res, listed, time, broker, publish_ok) ==
    IF ~res.ok
    THEN handle_rejection(ApiError("CommandProcessingError", res.err), time)
             @@ [attempts |-> <<>>, broker |-> broker]
    ELSE IF ~listed.ok \/ ~publish_ok
    THEN handle_rejection(ApiError("InternalError", <<"internal">>), time)
             @@ [attempts |-> <<>>, broker |-> broker]
    ELSE command_executed([result |-> res.val, events |-> listed.val, timestamp |-> time],
                          broker, publish_ok)

\* handle_dsl after process_command returned res: listed is what
\* timeline::list_events() returns, time the reading of the clock.  Returns
\* the answer, the events handed to the broker and what the broker holds
handle_dsl(res, listed, time, broker, publish_ok) ==
    IF ~res.ok
    THEN handle_rejection(ApiError("CommandProcessingError", res.err), time)
             @@ [attempts |-> <<>>, broker |-> broker]
    ELSE IF ~listed.ok
    THEN handle_rejection(ApiError("InternalError", listed.err), time)
             @@ [attempts |-> <<>>, broker |-> broker]
    ELSE command_executed([result |-> res.val, events |-> listed.val, timestamp |-> time],
                          broker, publish_ok)

\* the call of handle_dsl as the history keeps it, res being what
\* process_command returned: the events are listed and the response is
\* stamped once the command's events are in the timeline
Answered(call, res) ==
    call @@ [res |-> res]
         @@ handle_dsl(res, IF call.listed_ok THEN Ok(timeline') ELSE Err(<<"timeline">>),
                       now', published, call.publish_ok)

\* a call of process_command as the history keeps it, by its caller
Reply(call, res) ==
    IF call.op = "handle_dsl" THEN Answered(call, res) ELSE call @@ [res |-> res]

(* The SSE stream: handle_stream of logline_api/src/api.rs over            *)
(* EventBroker::subscribe, which follows section 4.5 of the specification: *)
(* the id of an event is its place in what the broker has published        *)

\* the events the broker retains for replay: the ring of the most recent
Retention == 2

retained(broker) == { i \in DOMAIN broker : i > Len(broker) - Retention }

\* subscribe replaying the event of last_event_id with those that follow it
subscribe_inclusive(broker, channels, last_event_id) ==
    [channels |-> channels,
     cursor |-> IF last_event_id.some /\ last_event_id.val \in retained(broker)
                THEN last_event_id.val - 1
                ELSE Len(broker)]

\* EventBroker::subscribe: the place the stream starts after.  A
\* last_event_id the broker retains is replayed from; any other, and none,
\* gives live delivery from now
subscribe(broker, channels, last_event_id) ==
    [channels |-> channels,
     cursor |-> IF last_event_id.some /\ last_event_id.val \in retained(broker)
                THEN last_event_id.val
                ELSE Len(broker)]

\* the ids of the events queued for a subscriber: those published after
\* its cursor on a channel it listens to
queued(broker, channels, cursor) ==
    { i \in DOMAIN broker : i > cursor /\ broker[i].channels \cap channels # {} }

\* the stream yielding the newest queued event first
next_event_newest(broker, channels, cursor) ==
    CHOOSE i \in queued(broker, channels, cursor) :
        \A j \in queued(broker, channels, cursor) : j <= i

\* the next item of the stream: the oldest queued event
next_event(broker, channels, cursor) ==
    CHOOSE i \in queued(broker, channels, cursor) :
        \A j \in queued(broker, channels, cursor) : i <= j

\* handle_stream, lines 158-170: the pairs of the query, each split at '=',
\* that name a channel
query_channels(query) ==
    { pair[2] : pair \in { q \in Range(query) : Len(q) >= 2 /\ q[1] = "channel" } }

\* handle_stream, lines 172-177: without a channel the stream is of "default"
stream_channels(query) ==
    IF query_channels(query) = {} THEN {"default"} ELSE query_channels(query)

\* handle_stream, lines 183-196: the SSE frame of an item of the stream
sse_frame(item) ==
    IF item.ok
    THEN [id |-> Some(item.val.id), event |-> item.val.event, data |-> item.val.data]
    ELSE [id |-> None, event |-> "heartbeat", data |-> <<>>]

----------------------------------------------------------------------------
(* The dispatcher: runtime.  Event is runtime/src/events.rs; process_command *)
(* and the timeline follow section 4.7 and 4.4 of the specification.  No     *)
(* plugin is loaded, so no hook is invoked.                                  *)

\* Event::new(kind): the id is Uuid::new_v4(), the timestamp Utc::now()
Event_new(kind, uuid, time) == [id |-> uuid, timestamp |-> time, kind |-> kind]

\* Uuid::new_v4() draws 122 random bits.  The dispatcher reads no event's id:
\* one value stands here for whatever is drawn
Uuids == {0}

\* the readings of n successive calls of Utc::now(), the first at time t or later
RECURSIVE Readings(_, _)
Readings(t, n) ==
    IF n = 0 THEN {<<>>}
    ELSE UNION { { <<u>> \o rest : rest \in Readings(u, n - 1) } : u \in Clock(t) }

\* timeline::append
append(tl, event) == Append(tl, event)

\* timeline::find_events_by_kind
find_events_by_kind(tl, tag_name) == SelectSeq(tl, LAMBDA e : e.kind.tag = tag_name)

Sequential == <<"s","e","q","u","e","n","t","i","a","l">>

\* the fan-out of ORCHESTRATE: 1 for "sequential", else what the machine has
Concurrency(mode) == IF mode = Sequential THEN 1 ELSE 2

ErrorOccurred(context, message) ==
    [tag |-> "ErrorOccurred", context |-> context, message |-> message]

ImperativeExecuted(kind) == [tag |-> "ImperativeExecuted", kind |-> kind]

\* the stores a command works on
Stores == [registry |-> registry, contracts |-> contracts, ideas |-> ideas,
           sim_store |-> sim_store]

\* the SimulateEntity branch of execute, r being what run_simulation returned
simulated(st, k, r) ==
    IF ~r.res.ok THEN [st |-> st, emitted |-> <<>>, res |-> r.res]
    ELSE [st |-> [st EXCEPT !.sim_store = r.mem],
          emitted |-> << [tag |-> "SimulationCompleted", id |-> k.id,
                          rounds |-> k.rounds] >>,
          res |-> Ok(<<"Simulação concluída: ", k.id, k.rounds, " rodadas">>)]

\* step 3 of process_command: the command is executed at clock reading time,
\* entropy being what the simulation's generator is seeded from.
\* Returns the stores, the kinds of the events emitted and the result
execute(st, k, time, entropy) ==
    CASE k.tag = "DefineContract" ->
             LET r == create_contract(st.contracts, k.id, k.clauses, time) IN
             IF ~r.res.ok THEN [st |-> st, emitted |-> <<>>, res |-> r.res]
             ELSE [st |-> [st EXCEPT !.contracts = r.store],
                   emitted |-> << [tag |-> "ContractRegistered", id |-> k.id] >>,
                   res |-> Ok(<<"Contrato registrado: ", k.id>>)]
      [] k.tag = "DefineIdea" ->
             LET r == create_idea(st.ideas, k.id, k.text, time) IN
             IF ~r.res.ok THEN [st |-> st, emitted |-> <<>>, res |-> r.res]
             ELSE [st |-> [st EXCEPT !.ideas = r.store],
                   emitted |-> << [tag |-> "IdeaRegistered", id |-> k.id] >>,
                   res |-> Ok(<<"Ideia registrada: ", k.id>>)]
      [] k.tag = "SimulateEntity" ->
             simulated(st, k, run_simulation(st.registry, st.sim_store, k.id, k.rounds,
                                             entropy))
      [] k.tag = "Orchestrate" ->
             \* the workload is a no-op: it ends within the clock tick it began in
             [st |-> st,
              emitted |-> << [tag |-> "OrchestrationStarted", mode |-> k.mode,
                              concurrency |-> Concurrency(k.mode)],
                             [tag |-> "OrchestrationCompleted", mode |-> k.mode,
                              concurrency |-> Concurrency(k.mode), duration_ms |-> 0] >>,
              res |-> Ok(<<"Orquestração concluída: ", k.mode>>)]
      [] k.tag = "InvokeRuleset" ->
             LET fetched == fetch_entity(st.registry, k.entity_id)
                 verdict == apply_ruleset(k.ruleset_id, k.entity_id)
             IN IF ~fetched.ok THEN [st |-> st, emitted |-> <<>>, res |-> fetched]
                ELSE IF ~verdict.ok THEN [st |-> st, emitted |-> <<>>, res |-> verdict]
                ELSE [st |-> st,
                      emitted |-> << [tag |-> "RuleVerdict", rule |-> k.ruleset_id,
                                      verdict |-> verdict.val] >>,
                      res |-> Ok(<<"Veredicto: ", verdict.val>>)]

\* the events of the kinds, each made by Event::new and appended in order
RECURSIVE emit(_, _, _, _)
emit(tl, kinds, uuids, times) ==
    IF kinds = <<>> THEN tl
    ELSE emit(append(tl, Event_new(Head(kinds), Head(uuids), Head(times))),
              Tail(kinds), Tail(uuids), Tail(times))

\* the texts handed to process_command
CmdDefineContract == DEFINE_ \o <<" ">> \o CONTRACT_ \o <<" ">> \o IdA \o <<" ", "c", "1", ",", " ", "c", "2">>

CmdDefineContractB == DEFINE_ \o <<" ">> \o CONTRACT_ \o <<" ">> \o IdB \o <<" ", "c">>

CmdDefineIdea == DEFINE_ \o <<" ">> \o IDEA_ \o <<" ">> \o IdA \o <<" ">> \o Q \o <<"t">> \o Q

CmdSimulate == SIMULATE_ \o <<" ">> \o ENTITY_ \o <<" ">> \o IdA \o <<" ", "2">>

CmdOrchestrate == ORCHESTRATE_ \o <<" ">> \o <<"p","a","r","a","l","l","e","l">>

CmdInvoke == INVOKE_ \o <<" ">> \o RULESET_ \o <<" ">> \o BasicCheckId \o <<" ">> \o ON_ \o <<" ">> \o IdA

CmdInvalid == <<"I","N","V","A","L","I","D"," ","C","O","M","M","A","N","D">>

CmdLowerCase == LowerFirst(CmdDefineIdea, Len(DEFINE_) + 1 + Len(IDEA_))

CommandTexts ==
    {CmdDefineContract, CmdDefineContractB, CmdDefineIdea, CmdSimulate, CmdOrchestrate, CmdInvoke,
     CmdInvalid, CmdLowerCase}

\* step 1 of process_command, for each of the texts
Parsed == [text \in CommandTexts |-> parse(text)]

\* steps 4 and 6 of process_command: the events of kinds are appended, each
\* at a later reading of the clock, and the stores are what execute left;
\* call is the call as its caller records it
Appending(call, time, x, kinds) ==
    \E times \in Readings(time, Len(kinds)), uuids \in [1..Len(kinds) -> Uuids] :
        /\ timeline' = emit(timeline, kinds, uuids, times)
        /\ now' = times[Len(kinds)]
        /\ ret' = Reply(call, x.res)
        /\ registry' = x.st.registry
        /\ contracts' = x.st.contracts
        /\ ideas' = x.st.ideas
        /\ sim_store' = x.st.sim_store

\* x is what execute returned: the events of the command and
\* ImperativeExecuted, or ErrorOccurred alone when the step failed
Executed(call, tag_name, time, x) ==
    Appending(call, time, x,
              IF x.res.ok
              THEN Append(x.emitted, ImperativeExecuted(tag_name))
              ELSE <<ErrorOccurred("validation", x.res.err)>>)

\* process_command after step 1, p being what parse returned
Dispatch(call, p) ==
    IF ~p.ok
    THEN \E times \in Readings(now, 1), uuids \in [1..1 -> Uuids] :
             /\ timeline' = emit(timeline, <<ErrorOccurred("parsing", p.err)>>, uuids, times)
             /\ now' = times[1]
             /\ ret' = Reply(call, Err(p.err))
             /\ UNCHANGED <<registry, contracts, ideas, sim_store>>
    ELSE \E time \in Clock(now), entropy \in Seeds :
             Executed(call, p.cmd.kind.tag, time,
                      execute(Stores, p.cmd.kind, time, entropy))

ProcessCommand(text) ==
    /\ Len(timeline) < MaxTimeline
    /\ Dispatch([op |-> "process_command", text |-> text], Parsed[text])
    /\ pre' = Snapshot
    /\ UNCHANGED <<metrics_order, runs, host>>
    /\ UNCHANGED <<input, parsed, lastOp, origin>>

\* the entities the callers of the dispatcher register
NextRuntime ==
    \/ \E text \in CommandTexts : ProcessCommand(text)
    \/ RegisterEntity(IdA, "TEST")
    \/ RemoveEntity(IdA)

SpecRuntime == Init /\ [][NextRuntime]_vars

----------------------------------------------------------------------------
(* The HTTP gateway at work: POST /dsl over the dispatcher *)

\* the command texts posted to /dsl
DslTexts == {CmdDefineContract, CmdInvoke, CmdInvalid}

\* the backends the stores are configured with
Backends == {"memory", "persistent"}

\* process_command when the store it writes to fails (section 7):
\* ErrorOccurred with context "storage" is appended and the error returned
StorageFailed(call, p) ==
    /\ p.ok
    /\ \E times \in Readings(now, 1), uuids \in [1..1 -> Uuids] :
           /\ timeline' = emit(timeline, <<ErrorOccurred("storage", <<"storage">>)>>,
                               uuids, times)
           /\ now' = times[1]
           /\ ret' = Reply(call, Err(<<"storage">>))
           /\ UNCHANGED <<registry, contracts, ideas, sim_store>>

\* process_command as handle_dsl calls it, the store working or failing
Processing(call, p, storage_ok) ==
    IF storage_ok THEN Dispatch(call, p) ELSE StorageFailed(call, p)

\* POST /dsl with the body {"command": text}
Posted(text, storage_ok, listed_ok, publish_ok) ==
    /\ storage_ok \/ input.backend = "persistent"
    /\ Processing([op |-> "handle_dsl", text |-> text, listed_ok |-> listed_ok,
                   publish_ok |-> publish_ok],
                  Parsed[text], storage_ok)
    /\ published' = ret'.broker
    /\ pre' = Snapshot
    /\ UNCHANGED <<plugins, plugin_dir, fs_events, threads>>
    /\ UNCHANGED <<metrics_order, runs, input, parsed, lastOp, origin>>

HandleDsl(text, storage_ok, listed_ok, publish_ok) ==
    /\ Len(timeline) < MaxTimeline
    /\ Posted(text, storage_ok, listed_ok, publish_ok)

InitApi ==
    /\ input \in [backend : Backends]
    /\ parsed = NotCalled
    /\ now = 0
    /\ registry = EmptyMap
    /\ contracts = EmptyMap
    /\ ideas = EmptyMap
    /\ sim_store = EmptyMap
    /\ timeline = <<>>
    /\ metrics_order = EmptyMap
    /\ runs = <<>>
    /\ HostInit
    /\ ret = NoCall
    /\ lastOp = [id \in EntityIds |-> [op |-> "none"]]
    /\ origin = [contracts |-> EmptyMap, ideas |-> EmptyMap]
    /\ pre = [registry |-> EmptyMap, contracts |-> EmptyMap, ideas |-> EmptyMap,
              sim_store |-> EmptyMap, timeline |-> <<>>,
              lastOp |-> [id \in EntityIds |-> [op |-> "none"]],
              plugins |-> EmptyMap, published |-> <<>>]

NextApi ==
    \/ \E text \in DslTexts, storage_ok, listed_ok, publish_ok \in BOOLEAN :
           HandleDsl(text, storage_ok, listed_ok, publish_ok)
    \/ RegisterEntity(IdA, "TEST")

SpecApi == InitApi /\ [][NextApi]_vars

(* The SSE stream at work: commands are posted while subscribers listen *)

\* the commands posted while two subscribers listen, and while one resumes
MaxPosted == 2

MaxPublished == 3

Subscribers == {"s1", "s2"}

\* a command that succeeds whenever it is posted
StreamTexts == {CmdOrchestrate}

\* GET /stream, /stream?channel=commands, /stream?channel=other&chan=commands
StreamQueries ==
    { <<>>, << <<"channel", "commands">> >>,
      << <<"channel", "other">>, <<"chan", "commands">> >> }

NotConnected ==
    [pc |-> "idle", channels |-> {}, last_event_id |-> None, held |-> 0, since |-> 0,
     cursor |-> 0, frames |-> <<>>]

\* a step of a subscriber
StreamStep(s, state, call) ==
    /\ threads' = [threads EXCEPT ![s] = state]
    /\ ret' = call
    /\ pre' = Snapshot
    /\ UNCHANGED <<plugins, plugin_dir, fs_events, published>>
    /\ UNCHANGED <<now, registry, contracts, ideas, sim_store, timeline, metrics_order,
                   input, parsed, lastOp, origin, runs>>

\* POST /dsl while the streams are open
PostDsl(text, publish_ok, most) ==
    /\ Len(timeline) < 3 * most
    /\ Posted(text, TRUE, TRUE, publish_ok)

\* the stream a subscription opened: held is how many events the broker had
\* published, since the id the stream starts after
Opened(sub, last_event_id) ==
    [pc |-> "stream", channels |-> sub.channels, last_event_id |-> last_event_id,
     held |-> Len(published), since |-> sub.cursor, cursor |-> sub.cursor,
     frames |-> <<>>]

\* handle_stream: GET /stream with a query and, or not, Last-Event-ID
HandleStream(s, query, last_event_id) ==
    /\ threads[s].pc = "idle"
    \* the subscribers are alike: they connect in the order of their names
    /\ s = "s2" => threads["s1"].pc = "stream"
    /\ StreamStep(s, Opened(subscribe(published, stream_channels(query), last_event_id),
                            last_event_id),
                  [op |-> "handle_stream", subscriber |-> s])

\* the frame of the event of id i
EventFrame(i) ==
    sse_frame(Ok([id |-> i, event |-> published[i].kind, data |-> published[i].payload]))

\* subscriber s took id from its stream
Delivered(s, id) ==
    StreamStep(s, [threads[s] EXCEPT !.cursor = id, !.frames = Append(@, EventFrame(id))],
               [op |-> "frame", subscriber |-> s])

\* the stream of a subscriber yields its next event
Deliver(s) ==
    /\ threads[s].pc = "stream"
    /\ queued(published, threads[s].channels, threads[s].cursor) # {}
    /\ Delivered(s, next_event(published, threads[s].channels, threads[s].cursor))

\* nothing is queued for the subscriber and the heartbeat interval ends; the
\* heartbeats that follow a frame are left out
Heartbeat(s) ==
    /\ threads[s].pc = "stream"
    /\ queued(published, threads[s].channels, threads[s].cursor) = {}
    /\ threads[s].frames = <<>>
    /\ StreamStep(s, [threads[s] EXCEPT !.frames = Append(@, sse_frame(Err("heartbeat")))],
                  [op |-> "heartbeat", subscriber |-> s])

InitStream ==
    /\ input = [backend |-> "memory"]
    /\ parsed = NotCalled
    /\ now = 0
    /\ registry = EmptyMap
    /\ contracts = EmptyMap
    /\ ideas = EmptyMap
    /\ sim_store = EmptyMap
    /\ timeline = <<>>
    /\ metrics_order = EmptyMap
    /\ runs = <<>>
    /\ plugins = EmptyMap
    /\ plugin_dir = EmptyMap
    /\ fs_events = [watching |-> FALSE, queue |-> <<>>]
    /\ threads \in { [s \in subs |-> NotConnected] : subs \in {Subscribers, {"s1"}} }
    /\ published = <<>>
    /\ ret = NoCall
    /\ lastOp = [id \in EntityIds |-> [op |-> "none"]]
    /\ origin = [contracts |-> EmptyMap, ideas |-> EmptyMap]
    /\ pre = [registry |-> EmptyMap, contracts |-> EmptyMap, ideas |-> EmptyMap,
              sim_store |-> EmptyMap, timeline |-> <<>>,
              lastOp |-> [id \in EntityIds |-> [op |-> "none"]],
              plugins |-> EmptyMap, published |-> <<>>]

\* two subscribers that connect without Last-Event-ID, or one that may
\* resume: the commands posted are fewer with two
NextStream ==
    \/ \E text \in StreamTexts, publish_ok \in BOOLEAN :
           PostDsl(text, publish_ok,
                   IF DOMAIN threads = Subscribers THEN MaxPosted ELSE MaxPublished)
    \/ \E s \in DOMAIN threads, query \in StreamQueries :
           HandleStream(s, query, None)
    \/ \E s \in DOMAIN threads, query \in StreamQueries, id \in 1..MaxPublished :
           DOMAIN threads # Subscribers /\ HandleStream(s, query, Some(id))
    \/ \E s \in DOMAIN threads : Deliver(s)
    \/ \E s \in DOMAIN threads : Heartbeat(s)

SpecStream == InitStream /\ [][NextStream]_vars

----------------------------------------------------------------------------
(* Events made and appended by tasks that run at once.  Event::new is        *)
(* runtime/src/events.rs; the timeline follows section 4.4 of the            *)
(* specification: appends are serialized and list_events is in append order. *)

\* the values Uuid::new_v4() may draw, in the order of Uuid's Ord
UuidValues == 0..2

Appenders == {"a1", "a2"}

EventKinds == {ImperativeExecuted("DefineIdea"), ErrorOccurred("parsing", <<"e">>)}

NoEvent == [pc |-> "idle", event |-> Event_new(ImperativeExecuted("none"), 0, 0)]

\* the ids of the events that exist: two draws of 122 random bits do not
\* meet
UsedIds ==
    { timeline[i].id : i \in DOMAIN timeline }
        \cup { threads[t].event.id : t \in { u \in Appenders : threads[u].pc = "made" } }

\* a step of the timeline's callers
TimelineStep ==
    /\ pre' = Snapshot
    /\ UNCHANGED <<registry, contracts, ideas, sim_store, metrics_order, input, parsed,
                   lastOp, origin>>
    /\ UNCHANGED <<plugins, plugin_dir, fs_events, published>>

\* task t calls Event::new(kind)
EventNew(t, kind, uuid) ==
    /\ threads[t].pc = "idle"
    /\ Len(timeline) + Cardinality({ u \in Appenders : threads[u].pc = "made" }) < MaxTimeline
    /\ uuid \notin UsedIds
    /\ \E time \in Clock(now) :
           /\ now' = time
           /\ threads' = [threads EXCEPT ![t] = [pc |-> "made",
                                                 event |-> Event_new(kind, uuid, time)]]
           /\ ret' = [op |-> "Event::new", thread |-> t]
    /\ UNCHANGED <<timeline, runs>>
    /\ TimelineStep

\* task t calls timeline::append with the event it made; runs keeps the
\* appends in the order they were served
TimelineAppend(t) ==
    /\ threads[t].pc = "made"
    /\ timeline' = append(timeline, threads[t].event)
    /\ runs' = Append(runs, [thread |-> t, event |-> threads[t].event])
    /\ threads' = [threads EXCEPT ![t] = NoEvent]
    /\ ret' = [op |-> "append", thread |-> t]
    /\ UNCHANGED now
    /\ TimelineStep

\* timeline::list_events
ListEvents ==
    /\ ret' = [op |-> "list_events", res |-> timeline]
    /\ UNCHANGED <<now, timeline, runs, threads>>
    /\ TimelineStep

InitTimeline ==
    /\ now = 0
    /\ registry = EmptyMap
    /\ contracts = EmptyMap
    /\ ideas = EmptyMap
    /\ sim_store = EmptyMap
    /\ timeline = <<>>
    /\ metrics_order = EmptyMap
    /\ runs = <<>>
    /\ plugins = EmptyMap
    /\ plugin_dir = EmptyMap
    /\ fs_events = [watching |-> FALSE, queue |-> <<>>]
    /\ threads = [t \in Appenders |-> NoEvent]
    /\ published = <<>>
    /\ input = NoInput
    /\ parsed = NotCalled
    /\ ret = NoCall
    /\ lastOp = [id \in EntityIds |-> [op |-> "none"]]
    /\ origin = [contracts |-> EmptyMap, ideas |-> EmptyMap]
    /\ pre = [registry |-> EmptyMap, contracts |-> EmptyMap, ideas |-> EmptyMap,
              sim_store |-> EmptyMap, timeline |-> <<>>,
              lastOp |-> [id \in EntityIds |-> [op |-> "none"]],
              plugins |-> EmptyMap, published |-> <<>>]

NextTimeline ==
    \/ \E t \in Appenders, kind \in EventKinds, uuid \in UuidValues : EventNew(t, kind, uuid)
    \/ \E t \in Appenders : TimelineAppend(t)
    \/ ListEvents

SpecTimeline == InitTimeline /\ [][NextTimeline]_vars

----------------------------------------------------------------------------
(* create_contract and create_idea called by tasks that run at once.  Each   *)
(* call reads Utc::now() and builds its record, then takes the mutex of the  *)
(* store, under which it tests contains_key and inserts.                     *)

Creators == {"t1", "t2"}

NotCreating == [pc |-> "idle", lib |-> "", id |-> <<>>, payload |-> <<>>, time |-> 0]

\* the payloads of the two libraries
CreatePayloads(lib) == IF lib = "contracts" THEN ClauseLists ELSE IdeaTexts

\* a step of a creating task
CreatorStep ==
    /\ pre' = Snapshot
    /\ UNCHANGED <<registry, sim_store, timeline, metrics_order, input, parsed, lastOp,
                   origin>>
    /\ UNCHANGED <<plugins, plugin_dir, fs_events, published>>

\* create_contract lines 43-50, create_idea lines 44-52: the record is built
\* with the reading of the clock
CreateBegin(t, lib, id, payload) ==
    /\ threads[t].pc = "idle"
    /\ Len(runs) + Cardinality({ u \in Creators : threads[u].pc = "built" }) < MaxRuns + 1
    /\ \E time \in Clock(now) :
           /\ now' = time
           /\ threads' = [threads EXCEPT ![t] = [pc |-> "built", lib |-> lib, id |-> id,
                                                 payload |-> payload, time |-> time]]
    /\ ret' = [op |-> "Utc::now", thread |-> t]
    /\ UNCHANGED <<contracts, ideas, runs>>
    /\ CreatorStep

\* the call of task t returned r; runs keeps the calls in the order they
\* held the mutex
Created(t, r) ==
    /\ runs' = Append(runs, [thread |-> t, lib |-> threads[t].lib, id |-> threads[t].id,
                              payload |-> threads[t].payload, time |-> threads[t].time,
                              res |-> r.res])
    /\ ret' = [op |-> "create", thread |-> t, lib |-> threads[t].lib, id |-> threads[t].id,
               res |-> r.res]
    /\ threads' = [threads EXCEPT ![t] = NotCreating]
    /\ UNCHANGED now
    /\ CreatorStep

\* create_contract lines 52-59: lock, contains_key, insert, unlock
CreateContractLocked(t) ==
    /\ threads[t].pc = "built"
    /\ threads[t].lib = "contracts"
    /\ contracts' = create_contract(contracts, threads[t].id, threads[t].payload,
                                    threads[t].time).store
    /\ UNCHANGED ideas
    /\ Created(t, create_contract(contracts, threads[t].id, threads[t].payload,
                                  threads[t].time))

\* create_idea lines 54-61
CreateIdeaLocked(t) ==
    /\ threads[t].pc = "built"
    /\ threads[t].lib = "ideas"
    /\ ideas' = create_idea(ideas, threads[t].id, threads[t].payload, threads[t].time).store
    /\ UNCHANGED contracts
    /\ Created(t, create_idea(ideas, threads[t].id, threads[t].payload, threads[t].time))

InitCreators ==
    /\ now = 0
    /\ registry = EmptyMap
    /\ contracts = EmptyMap
    /\ ideas = EmptyMap
    /\ sim_store = EmptyMap
    /\ timeline = <<>>
    /\ metrics_order = EmptyMap
    /\ runs = <<>>
    /\ plugins = EmptyMap
    /\ plugin_dir = EmptyMap
    /\ fs_events = [watching |-> FALSE, queue |-> <<>>]
    /\ threads = [t \in Creators |-> NotCreating]
    /\ published = <<>>
    /\ input = NoInput
    /\ parsed = NotCalled
    /\ ret = NoCall
    /\ lastOp = [id \in EntityIds |-> [op |-> "none"]]
    /\ origin = [contracts |-> EmptyMap, ideas |-> EmptyMap]
    /\ pre = [registry |-> EmptyMap, contracts |-> EmptyMap, ideas |-> EmptyMap,
              sim_store |-> EmptyMap, timeline |-> <<>>,
              lastOp |-> [id \in EntityIds |-> [op |-> "none"]],
              plugins |-> EmptyMap, published |-> <<>>]

NextCreators ==
    \/ \E t \in Creators, lib \in {"contracts", "ideas"}, id \in StoreIds :
           \E payload \in CreatePayloads(lib) : CreateBegin(t, lib, id, payload)
    \/ \E t \in Creators : CreateContractLocked(t)
    \/ \E t \in Creators : CreateIdeaLocked(t)

SpecCreators == InitCreators /\ [][NextCreators]_vars

----------------------------------------------------------------------------
(* The plugin host: plugin_manager/src/lib.rs, plugin.rs, watcher.rs.  A     *)
(* WebAssembly module is kept as what the host can observe of it: whether    *)
(* it compiles, resolves its imports and instantiates, its exports, what     *)
(* get_metadata returns and the cells of its linear memory.  A cell stands   *)
(* for a run of bytes of the memory.                                         *)

\* an error of PluginError: its variant and the string it carries
PluginError(variant, text) == [variant |-> variant, text |-> text]

\* the number of values of a word of the WebAssembly machine, kept 16 bits
\* wide: i32 ranges over -2^15 .. 2^15 - 1 and u32 over 0 .. 2^16 - 1
WordValues == 65536

\* i32 as u32: the value modulo the number of values of a word
as_u32(v) == v % WordValues

\* the metadata objects the modules carry, by the cell that holds their JSON
\* body
MetadataBodies ==
    [m1 |-> [name |-> "echo", version |-> "1", hooks |-> <<"run">>],
     m2 |-> [name |-> "echo", version |-> "2", hooks |-> <<"run">>],
     m3 |-> [name |-> "echo", version |-> "3", hooks |-> <<"run", "missing">>]]

\* a cell that is not valid UTF-8
NotUtf8 == "ff"

\* std::str::from_utf8 followed by serde_json::from_str::<PluginMetadata>:
\* the text is a JSON object when it is an opening brace, a body and a
\* closing brace
from_str(buffer) ==
    IF \E i \in DOMAIN buffer : buffer[i] = NotUtf8
    THEN Err(PluginError("SerializationError", "invalid utf-8"))
    ELSE IF /\ Len(buffer) = 3
            /\ buffer[1] = "{"
            /\ buffer[2] \in DOMAIN MetadataBodies
            /\ buffer[3] = "}"
         THEN Ok(MetadataBodies[buffer[2]])
         ELSE Err(PluginError("SerializationError", "expected value"))

\* the modules written to the plugin directory.  results is what
\* get_metadata returns (i32 values), trap whether the call traps
GoodModule(body) ==
    [fault |-> "none",
     exports |-> {"memory", "alloc", "dealloc", "get_metadata", "hook_run"},
     trap |-> FALSE, results |-> <<0, 3>>,
     memory |-> <<"{", body, "}", "x">>]

Modules ==
    [v1 |-> GoodModule("m1"),
     v2 |-> GoodModule("m2"),
     \* declares the hooks run and missing, exports hook_run alone
     partial |-> GoodModule("m3"),
     \* not a WebAssembly module
     garbage |-> [GoodModule("m1") EXCEPT !.fault = "compile"],
     \* imports what the WASI import object does not provide
     unresolved |-> [GoodModule("m1") EXCEPT !.fault = "import"],
     \* its start function traps
     trapstart |-> [GoodModule("m1") EXCEPT !.fault = "instantiate"],
     \* the module of test_hot_reload_functionality: no get_metadata
     bare |-> [GoodModule("m1") EXCEPT !.exports = {"run"}],
     \* get_metadata traps
     trapping |-> [GoodModule("m1") EXCEPT !.trap = TRUE],
     \* get_metadata returns one value
     oneresult |-> [GoodModule("m1") EXCEPT !.results = <<0>>],
     \* get_metadata returns a length that stops short of the object
     short |-> [GoodModule("m1") EXCEPT !.results = <<0, 2>>],
     \* the memory holds bytes that are not UTF-8
     binary |-> [GoodModule("m1") EXCEPT !.memory = <<"{", NotUtf8, "}", "x">>],
     \* get_metadata returns a range that ends beyond the memory
     beyond |-> [GoodModule("m1") EXCEPT !.results = <<2, 3>>,
                                         !.memory = <<"x", "x", "{", "m1">>],
     \* get_metadata returns a negative pointer
     negative |-> [GoodModule("m1") EXCEPT !.results = <<-1, 1>>]]

\* what a read of the host's address space beyond a linear memory may find:
\* the process is killed, or the bytes that happen to lie there are read
Crash == [crash |-> TRUE, cells |-> <<>>]

Outside ==
    {Crash} \cup { [crash |-> FALSE, cells |-> c] : c \in {<<"}">>, <<NotUtf8>>} }

\* slice::from_raw_parts(memory.data_ptr().add(ptr), len), the cells read.
\* A range within the memory is read from it; beyond it the behaviour is
\* undefined, and outside is what the read meets
from_raw_parts(memory, ptr, len, outside) ==
    IF ptr + len <= Len(memory)
    THEN [crashed |-> FALSE, outside |-> FALSE, buffer |-> SubSeq(memory, ptr + 1, ptr + len)]
    ELSE IF outside.crash
         THEN [crashed |-> TRUE, outside |-> TRUE, buffer |-> <<>>]
         ELSE [crashed |-> FALSE, outside |-> TRUE,
               buffer |-> IF ptr < Len(memory)
                          THEN SubSeq(memory, ptr + 1, Len(memory)) \o outside.cells
                          ELSE outside.cells]

\* load_plugin_metadata, the loop over metadata.hooks: a hook is mapped when
\* the function hook_<name> is exported
functions_of(metadata, exports) ==
    LET mapped == { metadata.hooks[i] : i \in { j \in DOMAIN metadata.hooks :
                        ("hook_" \o metadata.hooks[j]) \in exports } }
    IN [hook \in mapped |-> "hook_" \o hook]

\* load_plugin_metadata after the read of the memory
metadata_read(module, id, read) ==
    IF read.crashed THEN [crashed |-> TRUE, outside |-> TRUE, res |-> Unit]
    ELSE LET metadata == from_str(read.buffer) IN
         [crashed |-> FALSE, outside |-> read.outside,
          res |-> IF ~metadata.ok THEN metadata
                  ELSE Ok([metadata |-> metadata.val, id |-> id,
                           functions |-> functions_of(metadata.val, module.exports)])]

\* plugin::load_plugin_metadata
load_plugin_metadata(module, id, outside) ==
    LET early(e) == [crashed |-> FALSE, outside |-> FALSE, res |-> Err(e)] IN
    IF "get_metadata" \notin module.exports
    THEN early(PluginError("FunctionNotFound", "get_metadata"))
    ELSE IF module.trap
    THEN early(PluginError("WasmExecutionError", "trap"))
    ELSE IF Len(module.results) < 2
    THEN early(PluginError("MetadataError", "Retorno de metadados inválido"))
    ELSE IF "memory" \notin module.exports
    THEN early(PluginError("MetadataError", "Memória não encontrada"))
    ELSE metadata_read(module, id,
                       from_raw_parts(module.memory, as_u32(module.results[1]),
                                      as_u32(module.results[2]), outside))

\* load_plugin written with entry().or_insert(): a present record stays
load_plugin_keep_present(table, dir, path, wasi_ok, outside) ==
    IF path \in DOMAIN dir /\ Modules[dir[path]].fault = "none" /\ wasi_ok
    THEN LET loaded == load_plugin_metadata(Modules[dir[path]], path.stem, outside) IN
         IF loaded.crashed
         THEN [table |-> table, crashed |-> TRUE, outside |-> TRUE, res |-> Unit]
         ELSE IF ~loaded.res.ok
         THEN [table |-> table, crashed |-> FALSE, outside |-> loaded.outside,
               res |-> Err(PluginError("MetadataError", loaded.res.err))]
         ELSE [table |-> IF path.stem \in DOMAIN table THEN table
                         ELSE Put(table, path.stem, loaded.res.val),
               crashed |-> FALSE, outside |-> loaded.outside, res |-> loaded.res]
    ELSE [table |-> table, crashed |-> FALSE, outside |-> FALSE,
          res |-> Err(PluginError("IoError", "load failed"))]

\* PluginManager::load_plugin on the file path of the directory dir: the
\* stages in the order of the code, each returning its error before
\* PLUGINS is touched; wasi_ok is whether WasiState::finalize succeeds
load_plugin(table, dir, path, wasi_ok, outside) ==
    LET failed(variant, text) ==
            [table |-> table, crashed |-> FALSE, outside |-> FALSE,
             res |-> Err(PluginError(variant, text))]
    IN
    IF path \notin DOMAIN dir THEN failed("IoError", "No such file or directory")
    ELSE IF Modules[dir[path]].fault = "compile" THEN failed("WasmCompileError", dir[path])
    ELSE IF ~wasi_ok THEN failed("WasiError", "finalize")
    ELSE IF Modules[dir[path]].fault = "import" THEN failed("WasmImportError", dir[path])
    ELSE IF Modules[dir[path]].fault = "instantiate"
    THEN failed("WasmInstantiationError", dir[path])
    ELSE LET loaded == load_plugin_metadata(Modules[dir[path]], path.stem, outside) IN
         IF loaded.crashed
         THEN [table |-> table, crashed |-> TRUE, outside |-> TRUE, res |-> Unit]
         ELSE IF ~loaded.res.ok
         THEN [table |-> table, crashed |-> FALSE, outside |-> loaded.outside,
               res |-> Err(PluginError("MetadataError", loaded.res.err))]
         ELSE [table |-> Put(table, path.stem, loaded.res.val), crashed |-> FALSE,
               outside |-> loaded.outside, res |-> loaded.res]

\* create_or_get_instance: no instance is kept, the function returns its error
create_or_get_instance(id) == Err("Not implemented in this example")

\* the memory after copy_nonoverlapping wrote the payload at ptr
written(memory, ptr, payload) ==
    [i \in DOMAIN memory |->
        IF i > ptr /\ i <= ptr + Len(payload) THEN payload[i - ptr] ELSE memory[i]]

\* invoke_plugin_function once an instance is at hand: alloc, the copy of the
\* payload, the call of the hook, the read of its result
hook_called(instance, function_name, payload, outside) ==
    LET failed(variant, text) ==
            [crashed |-> FALSE, outside |-> FALSE, res |-> Err(PluginError(variant, text))]
    IN
    IF "alloc" \notin instance.exports THEN failed("FunctionNotFound", "alloc")
    ELSE IF "memory" \notin instance.exports
    THEN failed("WasmExecutionError", "Memória não encontrada")
    ELSE IF function_name \notin instance.exports
    THEN failed("FunctionNotFound", function_name)
    ELSE \* alloc returns the first free cell; the hook answers the range it was given
         LET ptr == as_u32(Len(instance.memory) - 1)
             read == from_raw_parts(written(instance.memory, ptr, payload),
                                    ptr, as_u32(Len(payload)), outside)
         IN IF read.crashed
            THEN [crashed |-> TRUE, outside |-> TRUE, res |-> Unit]
            ELSE [crashed |-> FALSE, outside |-> read.outside,
                  res |-> IF \E i \in DOMAIN read.buffer : read.buffer[i] = NotUtf8
                          THEN Err(PluginError("SerializationError", "invalid utf-8"))
                          ELSE Ok(read.buffer)]

\* plugin::invoke_plugin_function
invoke_plugin_function(plugin, hook, payload, outside) ==
    IF hook \notin DOMAIN plugin.functions
    THEN [crashed |-> FALSE, outside |-> FALSE,
          res |-> Err(PluginError("FunctionNotFound", <<hook, " em ", plugin.id>>))]
    ELSE LET instance == create_or_get_instance(plugin.id) IN
         IF ~instance.ok
         THEN [crashed |-> FALSE, outside |-> FALSE,
               res |-> Err(PluginError("Internal", instance.err))]
         ELSE hook_called(instance.val, plugin.functions[hook], payload, outside)

\* invoke looking for the function in any record before it looks for the
\* plugin
invoke_function_first(table, plugin_name, function, payload, outside) ==
    IF \A id \in DOMAIN table : function \notin DOMAIN table[id].functions
    THEN [crashed |-> FALSE, outside |-> FALSE,
          res |-> Err(PluginError("FunctionNotFound", <<function, " em ", plugin_name>>))]
    ELSE IF plugin_name \notin DOMAIN table
    THEN [crashed |-> FALSE, outside |-> FALSE,
          res |-> Err(PluginError("PluginNotFound", plugin_name))]
    ELSE invoke_plugin_function(table[plugin_name], function, payload, outside)

\* PluginManager::invoke
invoke(table, plugin_name, function, payload, outside) ==
    IF plugin_name \notin DOMAIN table
    THEN [crashed |-> FALSE, outside |-> FALSE,
          res |-> Err(PluginError("PluginNotFound", plugin_name))]
    ELSE invoke_plugin_function(table[plugin_name], function, payload, outside)

\* PluginManager::list_plugins: the metadata of the records, in the order
\* the map iterates in
list_plugins(table, order) == [i \in DOMAIN order |-> table[order[i]].metadata]

\* watcher::is_wasm_file
is_wasm_file(path) == path.ext = "wasm"

\* whether a read met bytes outside a linear memory, so far or later
carry_outside(before, r) == [r EXCEPT !.outside = before \/ r.outside]

RECURSIVE reload_entries(_, _, _, _, _, _)
RECURSIVE reload_next(_, _, _, _, _, _)

\* PluginManager::reload_all_plugins, its loop over the entries of the
\* directory in the order read_dir yields them
reload_entries(table, dir, entries, wasi_ok, outside, loaded) ==
    IF entries = <<>>
    THEN [table |-> table, crashed |-> FALSE, outside |-> FALSE, res |-> Ok(loaded)]
    ELSE IF Head(entries).ext # "wasm"
    THEN reload_entries(table, dir, Tail(entries), wasi_ok, outside, loaded)
    ELSE reload_next(load_plugin(table, dir, Head(entries), wasi_ok, outside),
                     dir, Tail(entries), wasi_ok, outside, loaded)

\* the loop given up at the first entry that fails to load
reload_next_stop(r, dir, entries, wasi_ok, outside, loaded) ==
    IF r.crashed THEN r
    ELSE IF ~r.res.ok
    THEN [table |-> r.table, crashed |-> FALSE, outside |-> r.outside, res |-> Ok(loaded)]
    ELSE carry_outside(r.outside,
                       reload_entries(r.table, dir, entries, wasi_ok, outside, loaded + 1))

\* the loop after load_plugin returned r for an entry
reload_next(r, dir, entries, wasi_ok, outside, loaded) ==
    IF r.crashed THEN r
    ELSE carry_outside(r.outside,
                       reload_entries(r.table, dir, entries, wasi_ok, outside,
                                      IF r.res.ok THEN loaded + 1 ELSE loaded))

\* PluginManager::reload_all_plugins
reload_all_plugins(table, dir, order, wasi_ok, outside) ==
    reload_entries(table, dir, order, wasi_ok, outside, 0)

----------------------------------------------------------------------------
(* The plugin host at work: files written to and removed from the plugin    *)
(* directory, the watcher task, and the calls of the PluginManager          *)

MaxFsEvents == 1

Wasm(stem) == [stem |-> stem, ext |-> "wasm"]

\* the files of the plugin directory and what is written to each: echo.wasm
\* holds the module under study or version 2 of the echo plugin
FileNames == {Wasm("echo"), Wasm("aux"), [stem |-> "notes", ext |-> "txt"]}

FileContents(path) ==
    IF path = Wasm("echo") THEN {input.module, "v2"} ELSE {"v1"}

PluginIds == {"echo", "absent"}

Hooks == {"run", "missing"}

Payloads == {<<"x">>}

\* the module under study, and whether WasiState::finalize succeeds in the
\* environment of the host
PluginInputs ==
    [module : DOMAIN Modules, wasi_ok : {TRUE}] \cup {[module |-> "v1", wasi_ok |-> FALSE]}

\* the plugin host before a module is written to its directory
InitPlugins ==
    /\ input \in PluginInputs
    /\ parsed = NotCalled
    /\ now = 0
    /\ registry = EmptyMap
    /\ contracts = EmptyMap
    /\ ideas = EmptyMap
    /\ sim_store = EmptyMap
    /\ timeline = <<>>
    /\ metrics_order = EmptyMap
    /\ runs = <<>>
    /\ HostInit
    /\ ret = NoCall
    /\ lastOp = [id \in EntityIds |-> [op |-> "none"]]
    /\ origin = [contracts |-> EmptyMap, ideas |-> EmptyMap]
    /\ pre = [registry |-> EmptyMap, contracts |-> EmptyMap, ideas |-> EmptyMap,
              sim_store |-> EmptyMap, timeline |-> <<>>,
              lastOp |-> [id \in EntityIds |-> [op |-> "none"]],
              plugins |-> EmptyMap, published |-> <<>>]

\* no watcher yet: notify delivers nothing
NotWatching == [watching |-> FALSE, queue |-> <<>>]

\* the notify callback sends the event into the channel when a watcher exists
notified(channel, kind, path) ==
    IF channel.watching
    THEN [channel EXCEPT !.queue = Append(@, [kind |-> kind, paths |-> <<path>>])]
    ELSE channel

\* what a call of the manager leaves: r is what it returned.  A crash ends
\* the process, and PLUGINS and the watcher with it
ManagerReturned(call, r) ==
    /\ plugins' = IF r.crashed THEN EmptyMap ELSE r.table
    /\ fs_events' = IF r.crashed THEN NotWatching ELSE fs_events
    /\ ret' = call @@ [crashed |-> r.crashed, outside |-> r.outside, res |-> r.res]
    /\ pre' = Snapshot
    /\ UNCHANGED <<plugin_dir, threads, published>>
    /\ UNCHANGED <<now, registry, contracts, ideas, sim_store, timeline, metrics_order,
                   input, parsed, lastOp, origin, runs>>

\* a call that may read the memory of a module: what the read met outside
\* the memory, when it went outside, is kept with the call
ManagerRead(call, r, outside) ==
    ManagerReturned(call @@ [met |-> IF r.outside THEN outside ELSE Crash], r)

\* a file of the directory is created or overwritten
WriteFile(path, contents) ==
    /\ Len(fs_events.queue) < MaxFsEvents
    /\ plugin_dir' = Put(plugin_dir, path, contents)
    /\ fs_events' = notified(fs_events, IF path \in DOMAIN plugin_dir THEN "Modify"
                                        ELSE "Create", path)
    /\ ret' = [op |-> "write_file", path |-> path, contents |-> contents]
    /\ pre' = Snapshot
    /\ UNCHANGED <<plugins, threads, published>>
    /\ UNCHANGED <<now, registry, contracts, ideas, sim_store, timeline, metrics_order,
                   input, parsed, lastOp, origin, runs>>

\* a file of the directory is removed
RemoveFile(path) ==
    /\ Len(fs_events.queue) < MaxFsEvents
    /\ path \in DOMAIN plugin_dir
    /\ plugin_dir' = Remove(plugin_dir, path)
    /\ fs_events' = notified(fs_events, "Remove", path)
    /\ ret' = [op |-> "remove_file", path |-> path]
    /\ pre' = Snapshot
    /\ UNCHANGED <<plugins, threads, published>>
    /\ UNCHANGED <<now, registry, contracts, ideas, sim_store, timeline, metrics_order,
                   input, parsed, lastOp, origin, runs>>

\* watcher::process_watcher_event on the event at the head of the channel:
\* for a *.wasm path of a Create, Modify or Remove event a line is logged,
\* and nothing more
process_watcher_event(table, event) ==
    [table |-> table,
     logged |-> IF event.kind \in {"Create", "Modify", "Remove"}
                THEN SelectSeq(event.paths, is_wasm_file)
                ELSE <<>>]

ProcessWatcherEvent ==
    /\ fs_events.queue # <<>>
    /\ LET r == process_watcher_event(plugins, Head(fs_events.queue)) IN
       /\ plugins' = r.table
       /\ ret' = [op |-> "process_watcher_event", event |-> Head(fs_events.queue),
                  logged |-> r.logged]
    /\ fs_events' = [fs_events EXCEPT !.queue = Tail(@)]
    /\ pre' = Snapshot
    /\ UNCHANGED <<plugin_dir, threads, published>>
    /\ UNCHANGED <<now, registry, contracts, ideas, sim_store, timeline, metrics_order,
                   input, parsed, lastOp, origin, runs>>

\* PluginManager::watch_plugins: the watcher is created, then the plugins of
\* the directory are loaded
WatchPlugins ==
    /\ ~fs_events.watching
    /\ \E order \in IterationOrders(DOMAIN plugin_dir), outside \in Outside :
         LET r == reload_all_plugins(plugins, plugin_dir, order, input.wasi_ok, outside) IN
         /\ plugins' = IF r.crashed THEN EmptyMap ELSE r.table
         /\ fs_events' = IF r.crashed THEN NotWatching ELSE [fs_events EXCEPT !.watching = TRUE]
         /\ ret' = [op |-> "watch_plugins", crashed |-> r.crashed, outside |-> r.outside,
                    res |-> IF r.crashed THEN Unit ELSE Ok(Unit)]
    /\ pre' = Snapshot
    /\ UNCHANGED <<plugin_dir, threads, published>>
    /\ UNCHANGED <<now, registry, contracts, ideas, sim_store, timeline, metrics_order,
                   input, parsed, lastOp, origin, runs>>

ReloadAllPlugins ==
    \E order \in IterationOrders(DOMAIN plugin_dir), outside \in Outside :
        ManagerRead([op |-> "reload_all_plugins"],
                    reload_all_plugins(plugins, plugin_dir, order, input.wasi_ok, outside),
                    outside)

LoadPlugin(path) ==
    \E outside \in Outside :
        ManagerRead([op |-> "load_plugin", path |-> path],
                    load_plugin(plugins, plugin_dir, path, input.wasi_ok, outside),
                    outside)

Invoke(plugin_name, function, payload) ==
    \E outside \in Outside :
        ManagerReturned([op |-> "invoke", plugin_name |-> plugin_name,
                         function |-> function, payload |-> payload],
                        [table |-> plugins]
                            @@ invoke(plugins, plugin_name, function, payload, outside))

ListPlugins ==
    \E order \in IterationOrders(DOMAIN plugins) :
        ManagerReturned([op |-> "list_plugins"],
                        [table |-> plugins, crashed |-> FALSE, outside |-> FALSE,
                         res |-> list_plugins(plugins, order)])

NextPlugins ==
    \/ \E path \in FileNames : \E contents \in FileContents(path) : WriteFile(path, contents)
    \/ \E path \in FileNames : RemoveFile(path)
    \/ WatchPlugins
    \/ ProcessWatcherEvent
    \/ ReloadAllPlugins
    \/ \E path \in { p \in FileNames : is_wasm_file(p) } : LoadPlugin(path)
    \/ \E plugin_name \in PluginIds, function \in Hooks, payload \in Payloads :
           Invoke(plugin_name, function, payload)
    \/ ListPlugins

SpecPlugins == InitPlugins /\ [][NextPlugins]_vars

----------------------------------------------------------------------------
(* Calls of the PluginManager in flight at once.  PLUGINS is a DashMap: get  *)
(* returns a guard that holds the read lock of the key's shard until it is   *)
(* dropped, insert takes the write lock of the shard, iter visits the shards *)
(* one after the other.  load_plugin holds the write lock of the Wasmer      *)
(* store from line 101 to its return; invoke_plugin_function takes it at     *)
(* line 178.  Each plugin id has a shard of its own.                         *)

Threads == {"t1", "t2"}

\* the order in which iter visits the shards
ShardOrder == <<"aux", "echo">>

Idle ==
    [pc |-> "idle", id |-> "", hook |-> "", path |-> Wasm(""), dir |-> EmptyMap,
     seen |-> <<>>, todo |-> <<>>, acc |-> <<>>, live |-> EmptyMap]


\* history: per plugin id, the records that PLUGINS holds for it (the empty
\* sequence stands for no record)
LiveNow(table) ==
    [id \in Range(ShardOrder) |-> IF id \in DOMAIN table THEN {<<table[id]>>} ELSE {<<>>}]

\* the threads that hold the read lock of the shard of a plugin id
Guards(id) == { t \in Threads : threads[t].pc = "invoke" /\ threads[t].id = id }

\* the thread that holds the write lock of the store
StoreHolders == { t \in Threads : threads[t].pc = "load" }

\* a step of thread t that leaves the stores of the host as they are
ThreadStep(t, state, call) ==
    /\ threads' = [threads EXCEPT ![t] = state]
    /\ ret' = call
    /\ pre' = Snapshot
    /\ UNCHANGED <<plugins, plugin_dir, fs_events, published>>
    /\ UNCHANGED <<now, registry, contracts, ideas, sim_store, timeline, metrics_order,
                   input, parsed, lastOp, origin, runs>>

\* invoke, line 134: PLUGINS.get(plugin_name).  For a missing key the call
\* returns, else the thread holds the guard of the record
InvokeGet(t, plugin_name, function) ==
    /\ threads[t].pc = "idle"
    /\ IF plugin_name \notin DOMAIN plugins
       THEN ThreadStep(t, Idle,
                       [op |-> "invoke", thread |-> t, plugin_name |-> plugin_name,
                        function |-> function, seen |-> <<>>,
                        live |-> LiveNow(plugins),
                        res |-> invoke(plugins, plugin_name, function, <<"x">>, Crash).res])
       ELSE ThreadStep(t, [Idle EXCEPT !.pc = "invoke", !.id = plugin_name,
                                       !.hook = function, !.seen = <<plugins[plugin_name]>>,
                                       !.live = LiveNow(plugins)],
                       [op |-> "get", thread |-> t])

\* invoke_plugin_function on the record the guard holds: it returns at once
\* when the hook is not mapped, else it waits for the write lock of the store
InvokeCall(t) ==
    /\ threads[t].pc = "invoke"
    /\ threads[t].hook \in DOMAIN threads[t].seen[1].functions => StoreHolders = {}
    /\ ThreadStep(t, Idle,
                  [op |-> "invoke", thread |-> t, plugin_name |-> threads[t].id,
                   function |-> threads[t].hook, seen |-> threads[t].seen,
                   live |-> threads[t].live,
                   res |-> invoke_plugin_function(threads[t].seen[1], threads[t].hook,
                                                  <<"x">>, Crash).res])

\* list_plugins, PLUGINS.iter(): the iterator is made
ListBegin(t) ==
    /\ threads[t].pc = "idle"
    /\ ThreadStep(t, [Idle EXCEPT !.pc = "list", !.todo = ShardOrder,
                                  !.live = LiveNow(plugins)],
                  [op |-> "iter", thread |-> t])

\* the iterator visits the next shard and yields the record it holds
ListNext(t) ==
    /\ threads[t].pc = "list"
    /\ threads[t].todo # <<>>
    /\ ThreadStep(t, [threads[t] EXCEPT
                          !.todo = Tail(@),
                          !.acc = IF Head(threads[t].todo) \in DOMAIN plugins
                                  THEN Append(@, plugins[Head(threads[t].todo)])
                                  ELSE @],
                  [op |-> "next", thread |-> t])

\* the iterator is exhausted: list_plugins returns the metadata collected
ListEnd(t) ==
    /\ threads[t].pc = "list"
    /\ threads[t].todo = <<>>
    /\ ThreadStep(t, Idle,
                  [op |-> "list_plugins", thread |-> t, seen |-> threads[t].acc,
                   live |-> threads[t].live,
                   res |-> [i \in DOMAIN threads[t].acc |-> threads[t].acc[i].metadata]])

\* load_plugin, lines 93-101: the file is read and the write lock of the
\* store is taken
LoadBegin(t, path) ==
    /\ threads[t].pc = "idle"
    /\ StoreHolders = {}
    /\ ThreadStep(t, [Idle EXCEPT !.pc = "load", !.path = path, !.dir = plugin_dir],
                  [op |-> "read", thread |-> t])

\* the records that were live during the calls in flight, r having become
\* the record of id
Lived(id, r) ==
    [t \in Threads |->
        IF threads[t].pc \in {"invoke", "list"}
        THEN [threads[t] EXCEPT !.live[id] = @ \cup {<<r>>}]
        ELSE threads[t]]

\* load_plugin, lines 102-130, r being what it returns: the module is
\* compiled and instantiated, its metadata read, and PLUGINS.insert takes
\* the write lock of the shard, which no guard may hold
LoadInserted(t, r) ==
    /\ ~r.crashed
    /\ r.res.ok => Guards(threads[t].path.stem) = {}
    /\ plugins' = r.table
    /\ threads' = [IF r.res.ok THEN Lived(threads[t].path.stem, r.res.val) ELSE threads
                       EXCEPT ![t] = Idle]
    /\ ret' = [op |-> "load_plugin", thread |-> t, path |-> threads[t].path,
               res |-> r.res]
    /\ pre' = Snapshot
    /\ UNCHANGED <<plugin_dir, fs_events, published>>
    /\ UNCHANGED <<now, registry, contracts, ideas, sim_store, timeline, metrics_order,
                   input, parsed, lastOp, origin, runs>>

LoadInsert(t) ==
    /\ threads[t].pc = "load"
    /\ \E outside \in Outside :
           LoadInserted(t, load_plugin(plugins, threads[t].dir, threads[t].path,
                                       input.wasi_ok, outside))

\* the host after watch_plugins loaded version 1 of echo.wasm and aux.wasm
InitConcurrent ==
    /\ input \in [module : {"v1", "garbage"}, wasi_ok : {TRUE}]
    /\ parsed = NotCalled
    /\ now = 0
    /\ registry = EmptyMap
    /\ contracts = EmptyMap
    /\ ideas = EmptyMap
    /\ sim_store = EmptyMap
    /\ timeline = <<>>
    /\ metrics_order = EmptyMap
    /\ runs = <<>>
    /\ plugin_dir = [p \in {Wasm("echo"), Wasm("aux")} |-> "v1"]
    /\ plugins = reload_all_plugins(EmptyMap, plugin_dir, <<Wasm("echo"), Wasm("aux")>>,
                                    TRUE, Crash).table
    /\ fs_events = [watching |-> TRUE, queue |-> <<>>]
    /\ threads = [t \in Threads |-> Idle]
    /\ published = <<>>
    /\ ret = NoCall
    /\ lastOp = [id \in EntityIds |-> [op |-> "none"]]
    /\ origin = [contracts |-> EmptyMap, ideas |-> EmptyMap]
    /\ pre = [registry |-> EmptyMap, contracts |-> EmptyMap, ideas |-> EmptyMap,
              sim_store |-> EmptyMap, timeline |-> <<>>,
              lastOp |-> [id \in EntityIds |-> [op |-> "none"]],
              plugins |-> EmptyMap, published |-> <<>>]

NextConcurrent ==
    \/ \E contents \in FileContents(Wasm("echo")) : WriteFile(Wasm("echo"), contents)
    \/ ProcessWatcherEvent
    \/ \E t \in Threads, plugin_name \in PluginIds, function \in Hooks :
           InvokeGet(t, plugin_name, function)
    \/ \E t \in Threads : InvokeCall(t)
    \/ \E t \in Threads : ListBegin(t)
    \/ \E t \in Threads : ListNext(t)
    \/ \E t \in Threads : ListEnd(t)
    \/ \E t \in Threads, path \in {Wasm("echo"), Wasm("notes")} : LoadBegin(t, path)
    \/ \E t \in Threads : LoadInsert(t)

SpecConcurrent == InitConcurrent /\ [][NextConcurrent]_vars

----------------------------------------------------------------------------
(* Properties of the registry *)

\* the ids whose last registry write was register_entity(id, t)
RegisteredAs(t) ==
    { id \in EntityIds : lastOp[id] = [op |-> "register", type |-> t] }

NoDuplicates(l) == Cardinality(Range(l)) = Len(l)

\* C1: after any sequence of register_entity and remove_entity calls the
\* registry holds at most one entity per logical id; fetch_entity(id) returns
\* (id, t) for every id whose last write was register_entity(id, t); and
\* list_entities_by_type(t) returns exactly the ids stored with type t, each
\* once, whatever the iteration order of the map
C1_RegistryUniqueness ==
    /\ \A k1, k2 \in DOMAIN registry :
           registry[k1].logical_id = registry[k2].logical_id => k1 = k2
    /\ \A id \in EntityIds :
           lastOp[id].op = "register" =>
               fetch_entity(registry, id) = Ok(<<id, lastOp[id].type>>)
    /\ \A t \in EntityTypes : \A order \in IterationOrders(DOMAIN registry) :
           LET l == list_entities_by_type(registry, t, order) IN
           /\ l.ok
           /\ Range(l.val) = RegisteredAs(t)
           /\ NoDuplicates(l.val)
    /\ ret.op = "list_entities_by_type" =>
           /\ ret.res.ok
           /\ Range(ret.res.val) = RegisteredAs(ret.type)
           /\ NoDuplicates(ret.res.val)

\* two ids of one type are listed, one of them after it was registered anew
C1_Witness ==
    /\ ret.op = "list_entities_by_type"
    /\ Len(ret.res.val) = 2
    /\ registry[ret.res.val[1]].created_at # registry[ret.res.val[2]].created_at
    /\ \E id \in EntityIds : fetch_entity(registry, id) = Ok(<<id, ret.type>>)

\* C2: register_entity(id, t2) on an id registered with type t1 succeeds,
\* returns id and replaces the entry: fetch_entity(id) then returns t2, id is
\* listed under t2 and, when t1 differs from t2, no longer under t1, and the
\* number of registered ids is unchanged
C2_ReRegisterReplaces ==
    (ret.op = "register_entity" /\ ret.id \in DOMAIN pre.registry) =>
        LET t1 == pre.registry[ret.id].entity_type
            t2 == ret.type
        IN /\ ret.res = Ok(ret.id)
           /\ fetch_entity(registry, ret.id) = Ok(<<ret.id, t2>>)
           /\ \A order \in IterationOrders(DOMAIN registry) :
                  /\ ret.id \in Range(list_entities_by_type(registry, t2, order).val)
                  /\ t1 # t2 =>
                        ret.id \notin Range(list_entities_by_type(registry, t1, order).val)
           /\ Cardinality(DOMAIN registry) = Cardinality(DOMAIN pre.registry)

\* an id registered with one type has just been registered with another
C2_Witness ==
    /\ ret.op = "register_entity"
    /\ ret.id \in DOMAIN pre.registry
    /\ pre.registry[ret.id].entity_type # ret.type
    /\ Cardinality(DOMAIN registry) = 2

\* C3: remove_entity(id) returns true exactly when id is registered at the
\* call; afterwards fetch_entity(id) fails until id is registered again, no
\* entry (tombstone) is kept, and a second consecutive remove returns false
C3_RemoveEntity ==
    /\ ret.op = "remove_entity" =>
           /\ ret.res = Ok(ret.id \in DOMAIN pre.registry)
           /\ ~fetch_entity(registry, ret.id).ok
           /\ pre.lastOp[ret.id].op = "remove" => ret.res = Ok(FALSE)
    /\ \A id \in EntityIds :
           lastOp[id].op = "remove" =>
               /\ ~fetch_entity(registry, id).ok
               /\ id \notin DOMAIN registry
               /\ \A k \in DOMAIN registry : registry[k].logical_id # id

\* an id is removed a second time in a row, and the call returns false
C3_Witness ==
    /\ ret.op = "remove_entity"
    /\ ret.res = Ok(FALSE)
    /\ pre.lastOp[ret.id].op = "remove"

----------------------------------------------------------------------------
(* Properties of the stores *)

\* the last call was a creation under an id its store already held
DuplicateCreate(op, store) ==
    /\ ret.op = op
    /\ ret.id \in DOMAIN store

\* the record of the id is the one its first successful creation made:
\* nothing of it has changed since, unless an update was called, which
\* leaves created_at alone
AsFirstCreated(store, o, id, payload) ==
    /\ id \in DOMAIN store
    /\ id \in DOMAIN o
    /\ store[id].created_at = o[id].rec.created_at
    /\ ~o[id].updated => store[id] = o[id].rec
    /\ ~o[id].updated => store[id][payload] = o[id].rec[payload]

\* C4: create_contract(id, ...) and create_idea(id, ...) with an id already
\* present in the store return an error whose message ends in "já existe" and
\* leave the store as it was: the record keeps the clauses/text and the
\* created_at of its first successful creation
C4_DuplicateCreateFails ==
    /\ DuplicateCreate("create_contract", pre.contracts) =>
           /\ ~ret.res.ok
           /\ ret.res.err = <<"Contrato com ID '", ret.id, "' já existe">>
           /\ contracts = pre.contracts
           /\ AsFirstCreated(contracts, origin.contracts, ret.id, "clauses")
    /\ DuplicateCreate("create_idea", pre.ideas) =>
           /\ ~ret.res.ok
           /\ ret.res.err = <<"Ideia com ID '", ret.id, "' já existe">>
           /\ ideas = pre.ideas
           /\ AsFirstCreated(ideas, origin.ideas, ret.id, "text")

\* a contract is created again, later and with other clauses, and an idea
\* likewise (in another behaviour)
C4_Witness ==
    \/ /\ DuplicateCreate("create_contract", pre.contracts)
       /\ ret.payload # contracts[ret.id].clauses
       /\ now > contracts[ret.id].created_at
       /\ ~origin.contracts[ret.id].updated
    \/ /\ DuplicateCreate("create_idea", pre.ideas)
       /\ ret.payload # ideas[ret.id].text
       /\ now > ideas[ret.id].created_at
       /\ ~origin.ideas[ret.id].updated

----------------------------------------------------------------------------
(* Properties of the parser *)

\* the text without its leading whitespace
SkipSpace(s) == Drop(s, PrefixLen(TrimSpace, s))

\* the first whitespace-delimited word of the text, and the text after it
FirstWord(s) ==
    LET t == SkipSpace(s) IN SubSeq(t, 1, PrefixLen(Range(t) \ TrimSpace, t))

AfterFirstWord(s) ==
    LET t == SkipSpace(s) IN Drop(t, PrefixLen(Range(t) \ TrimSpace, t))

SecondWord(s) == FirstWord(AfterFirstWord(s))

\* the leading keywords of the five imperative forms
LeadingKeywords ==
    { <<DEFINE_, CONTRACT_>>, <<DEFINE_, IDEA_>>, <<SIMULATE_, ENTITY_>>,
      <<INVOKE_, RULESET_>> }

BadKeywords(s) ==
    /\ FirstWord(s) # ORCHESTRATE_
    /\ <<FirstWord(s), SecondWord(s)>> \notin LeadingKeywords

\* text that is no whitespace is left after the command of the input: what
\* follows the characters its last token goes on taking
LeftOver(in) ==
    /\ in.body.form # "none"
    /\ ~TrimIsEmpty(Drop(in.trail, PrefixLen(in.body.absorb, in.trail)))

SyntaxError(r) ==
    /\ ~r.ok
    /\ DOMAIN r = {"ok", "err"}
    /\ r.err[1] = "Erro de sintaxe: "

\* the forms of imperative() that take a prefix of the text
FormsTaking(s) ==
    { f \in {"DefineContract", "DefineIdea", "SimulateEntity", "Orchestrate", "InvokeRuleset"} :
        CASE f = "DefineContract" -> define_contract(s).ok
          [] f = "DefineIdea" -> define_idea(s).ok
          [] f = "SimulateEntity" -> simulate_entity(s).ok
          [] f = "Orchestrate" -> orchestrate(s).ok
          [] f = "InvokeRuleset" -> invoke_ruleset(s).ok }

\* C9: parse succeeds only when exactly one of the five imperative forms
\* consumes the whole input; text that is no whitespace left after a complete
\* command, and leading keywords other than DEFINE CONTRACT, DEFINE IDEA,
\* SIMULATE ENTITY, ORCHESTRATE or INVOKE RULESET in upper case, yield a
\* syntax error and no AST
C9_WholeInputOneForm ==
    parsed.called =>
        /\ parsed.res.ok =>
               /\ FormsTaking(Text(input)) = {parsed.res.cmd.kind.tag}
               /\ TrimIsEmpty(command(Text(input)).rest)
        /\ ~parsed.res.ok => SyntaxError(parsed.res)
        /\ LeftOver(input) => SyntaxError(parsed.res)
        /\ BadKeywords(Text(input)) => SyntaxError(parsed.res)

\* a complete command written from the first character, followed by
\* whitespace and then other text, is answered with a syntax error
C9_Witness ==
    /\ parsed.called
    /\ input.lead = <<>>
    /\ parse(input.body.text).ok
    /\ LeftOver(input)
    /\ input.trail[1] \in Multispace
    /\ SyntaxError(parsed.res)

\* C10 (does not hold): for a valid command text c and whitespace
\* strings l and r, parse(l + c + r) succeeds with the AST of parse(c).
\* parse_command hands the text to command() untrimmed, so whitespace before
\* the command is a syntax error
C10_SurroundingWhitespaceIgnored ==
    ( /\ parsed.called
      /\ parse(input.body.text).ok
      /\ \A i \in 1..Len(input.lead) : input.lead[i] \in Multispace
      /\ \A i \in 1..Len(input.trail) : input.trail[i] \in Multispace )
    => parsed.res = parse(input.body.text)

\* the AST the parser returned is the AST that was rendered
SameAst(a, b) ==
    /\ a.kind.tag = b.kind.tag
    /\ a.kind = b.kind

\* C11 (does not hold): every AST made of the grammar's identifiers, clauses,
\* texts and numbers, rendered by Display and parsed, comes back equal
C11_ParseRoundTrip ==
    parsed.called => parsed.res.ok /\ SameAst(parsed.res.cmd, input.ast)

\* the round trip holds for the ASTs none of whose clauses begins with a space
RoundTripWithoutLeadingSpace ==
    (/\ parsed.called
     /\ input.ast.kind.tag = "DefineContract"
            => \A i \in DOMAIN input.ast.kind.clauses :
                   LET c == input.ast.kind.clauses[i] IN c = <<>> \/ c[1] # " ")
        => parsed.res.ok /\ SameAst(parsed.res.cmd, input.ast)

\* the identifiers of an AST
Identifiers(cmd) ==
    LET k == cmd.kind IN
    CASE k.tag = "DefineContract" -> {k.id}
      [] k.tag = "DefineIdea" -> {k.id}
      [] k.tag = "SimulateEntity" -> {k.id}
      [] k.tag = "Orchestrate" -> {k.mode}
      [] k.tag = "InvokeRuleset" -> {k.ruleset_id, k.entity_id}

\* ident := [A-Za-z0-9_.@-]+
IsIdent(id) == id # <<>> /\ \A i \in DOMAIN id : id[i] \in IdentChars

\* C12 (does not hold): every identifier of an AST that parse returns is
\* non-empty and made of the characters of ident, so that a text whose
\* identifier is missing is rejected
C12_IdentifiersNonEmpty ==
    parsed.called /\ parsed.res.ok => \A id \in Identifiers(parsed.res.cmd) : IsIdent(id)

\* the identifiers parse returns are made of the characters of ident, and the
\* first identifier of the forms that go on after it is not empty
IdentifiersOfIdentChars ==
    parsed.called /\ parsed.res.ok =>
        /\ \A id \in Identifiers(parsed.res.cmd) : \A i \in DOMAIN id : id[i] \in IdentChars
        /\ parsed.res.cmd.kind.tag \in {"DefineContract", "DefineIdea", "SimulateEntity"}
               => parsed.res.cmd.kind.id # <<>>
        /\ parsed.res.cmd.kind.tag = "InvokeRuleset"
               => parsed.res.cmd.kind.ruleset_id # <<>>

\* parse returned ORCHESTRATE with the empty mode
EmptyModeParsed ==
    /\ parsed.called /\ parsed.res.ok
    /\ parsed.res.cmd.kind.tag = "Orchestrate"
    /\ parsed.res.cmd.kind.mode = <<>>

----------------------------------------------------------------------------
(* Properties of the dispatcher *)

\* the events the last call appended, and the timeline it found kept as it was
Appended == SubSeq(timeline, Len(pre.timeline) + 1, Len(timeline))

KeptTimeline ==
    /\ Len(timeline) >= Len(pre.timeline)
    /\ SubSeq(timeline, 1, Len(pre.timeline)) = pre.timeline

Tags(tl) == [i \in DOMAIN tl |-> tl[i].kind.tag]

\* how many events of the timeline are of the tag and carry the id
Count(tl, tag_name, id) ==
    Cardinality({ i \in DOMAIN tl : tl[i].kind.tag = tag_name /\ tl[i].kind.id = id })

Processed(text) == ret.op = "process_command" /\ ret.text = text

ContractCommands ==
    { [text |-> CmdDefineContract, id |-> IdA], [text |-> CmdDefineContractB, id |-> IdB] }

\* C5: a DEFINE CONTRACT command succeeds when its id is new and appends
\* ContractRegistered and ImperativeExecuted; processed again, it fails with
\* the duplication error and appends neither of them (only ErrorOccurred), so
\* that the timeline holds exactly one ContractRegistered event of the id
C5_DuplicateContractCommand ==
    \A c \in ContractCommands :
        /\ (Processed(c.text) /\ c.id \notin DOMAIN pre.contracts) =>
               /\ ret.res.ok
               /\ KeptTimeline
               /\ Tags(Appended) = <<"ContractRegistered", "ImperativeExecuted">>
               /\ Appended[1].kind.id = c.id
        /\ (Processed(c.text) /\ c.id \in DOMAIN pre.contracts) =>
               /\ ~ret.res.ok
               /\ ret.res.err = <<"Contrato com ID '", c.id, "' já existe">>
               /\ KeptTimeline
               /\ Tags(Appended) = <<"ErrorOccurred">>
               /\ contracts = pre.contracts
        /\ Count(timeline, "ContractRegistered", c.id) =
               (IF c.id \in DOMAIN contracts THEN 1 ELSE 0)

\* the same DEFINE CONTRACT command twice in succession: the first call made
\* the two events the second one found last on the timeline, and failed
C5_Witness ==
    /\ Processed(CmdDefineContract)
    /\ ~ret.res.ok
    /\ Tags(timeline) = <<"ContractRegistered", "ImperativeExecuted", "ErrorOccurred">>
    /\ timeline[1].kind.id = IdA
    /\ Count(timeline, "ContractRegistered", IdA) = 1

\* texts that are no command: an unknown keyword, keywords in lower case
KnownBad == {CmdInvalid, CmdLowerCase}

\* C6: process_command on a text that does not parse returns an error and
\* appends exactly one event, an ErrorOccurred of context "parsing"; the
\* registry, the contracts, the ideas and the simulation results stay as they were
C6_ParseErrorOneEvent ==
    /\ KnownBad = { text \in CommandTexts : ~parse(text).ok }
    /\ (ret.op = "process_command" /\ ret.text \in KnownBad) =>
           /\ ~ret.res.ok
           /\ KeptTimeline
           /\ Tags(Appended) = <<"ErrorOccurred">>
           /\ Appended[1].kind.context = "parsing"
           /\ registry = pre.registry
           /\ contracts = pre.contracts
           /\ ideas = pre.ideas
           /\ sim_store = pre.sim_store

\* a text that does not parse is processed when an idea is stored and the
\* timeline holds events already
C6_Witness ==
    /\ ret.op = "process_command"
    /\ ret.text \in KnownBad
    /\ pre.ideas # EmptyMap
    /\ Len(pre.timeline) = 2
    /\ Len(timeline) = 3
    /\ timeline[3].kind.tag = "ErrorOccurred"

\* C7: process_command of a DEFINE IDEA command whose id is not in the idea
\* store succeeds with the result "Ideia registrada: <id>" and appends one
\* IdeaRegistered event of that id and after it an ImperativeExecuted event
\* of kind DefineIdea; the timeline then holds one IdeaRegistered of the id
C7_DefineIdeaRegisters ==
    (Processed(CmdDefineIdea) /\ IdA \notin DOMAIN pre.ideas) =>
        /\ ret.res.ok
        /\ ret.res.val[1] = "Ideia registrada: "
        /\ ret.res.val[2] = IdA
        /\ KeptTimeline
        /\ Tags(Appended) = <<"IdeaRegistered", "ImperativeExecuted">>
        /\ Appended[1].kind.id = IdA
        /\ Appended[2].kind.kind = "DefineIdea"
        /\ Count(timeline, "IdeaRegistered", IdA) = 1
        /\ IdA \in DOMAIN ideas

\* the idea is defined after another command has failed
C7_Witness ==
    /\ Processed(CmdDefineIdea)
    /\ IdA \notin DOMAIN pre.ideas
    /\ Len(pre.timeline) = 1
    /\ Tags(timeline) = <<"ErrorOccurred", "IdeaRegistered", "ImperativeExecuted">>
    /\ timeline[3].timestamp > timeline[1].timestamp

\* C8 (does not hold): process_command of SIMULATE ENTITY <id> <n>
\* succeeds for any id, registered or not, returns a result that names n
\* rounds and appends exactly one SimulationCompleted event of that id with
\* rounds = n.  run_simulation_with_config fetches the entity from the
\* registry first and fails when it is not registered
C8_SimulateAnyEntity ==
    Processed(CmdSimulate) =>
        /\ ret.res.ok
        /\ ret.res.val[3] = 2
        /\ ret.res.val[4] = " rodadas"
        /\ Cardinality({ i \in DOMAIN Appended :
                            /\ Appended[i].kind.tag = "SimulationCompleted"
                            /\ Appended[i].kind.id = IdA
                            /\ Appended[i].kind.rounds = 2 }) = 1

----------------------------------------------------------------------------
(* Properties of the ruleset evaluator *)

Catalog == {AlwaysAcceptId, AlwaysRejectId, BasicCheckId}

\* C13: apply_ruleset returns Accepted for "always-accept", Rejected for
\* "always-reject", and Accepted, never an error, for every ruleset id that
\* is not in the catalog, whatever the entity id
C13_RulesetFallback ==
    ret.op = "apply_ruleset" =>
        /\ ret.ruleset_id = AlwaysAcceptId => ret.res = Ok("Accepted")
        /\ ret.ruleset_id = AlwaysRejectId => ret.res = Ok("Rejected")
        /\ ret.ruleset_id \notin Catalog => ret.res = Ok("Accepted")

\* a ruleset id that is no catalog entry was applied to an id that is not
\* registered
C13_Witness ==
    /\ ret.op = "apply_ruleset"
    /\ ret.ruleset_id \notin Catalog
    /\ ret.entity_id \notin DOMAIN registry
    /\ ret.res = Ok("Accepted")

Important == <<"i","m","p","o","r","t","a","n","t">>

\* C14 (does not hold): basic-check applied to an idea returns Accepted when
\* the idea's text contains "important" and Rejected when it does not
C14_BasicCheckContent ==
    (/\ ret.op = "apply_ruleset"
     /\ ret.ruleset_id = BasicCheckId
     /\ ret.entity_id \in DOMAIN ideas)
        => ret.res = Ok(IF Contains(ideas[ret.entity_id].text, Important)
                        THEN "Accepted" ELSE "Rejected")

\* basic-check returns Accepted whatever the entity is
BasicCheckAccepts ==
    ret.op = "apply_ruleset" /\ ret.ruleset_id = BasicCheckId => ret.res = Ok("Accepted")

\* basic-check was applied to an idea whose text contains "important"
BasicCheckOnImportant ==
    /\ ret.op = "apply_ruleset"
    /\ ret.ruleset_id = BasicCheckId
    /\ ret.entity_id \in DOMAIN ideas
    /\ Contains(ideas[ret.entity_id].text, Important)

----------------------------------------------------------------------------
(* Properties of the simulation *)

\* the results stored for an entity
Stored(mem, entity_id) == IF entity_id \in DOMAIN mem THEN mem[entity_id] ELSE <<>>

\* C16: run_simulation(id, n) on a registered entity returns n results of
\* the rounds 1, 2, ..., n in that order, each of status Success and with the
\* metrics success_rate and processing_time at least, and appends each of
\* them to the results stored for the entity
C16_RunSimulationRounds ==
    (ret.op = "run_simulation" /\ ret.id \in DOMAIN pre.registry) =>
        /\ ret.res.ok
        /\ Len(ret.res.val) = ret.config.rounds
        /\ \A i \in DOMAIN ret.res.val :
               /\ ret.res.val[i].round = i
               /\ ret.res.val[i].entity_id = ret.id
               /\ ret.res.val[i].status = "Success"
               /\ {"success_rate", "processing_time"} \subseteq DOMAIN ret.res.val[i].metrics
        /\ Stored(sim_store, ret.id) = Stored(pre.sim_store, ret.id) \o ret.res.val
        /\ DOMAIN sim_store \subseteq DOMAIN pre.sim_store \cup {ret.id}

\* run_simulation returned the results of MaxRounds rounds when results of an
\* earlier call were stored for the entity
C16_Witness ==
    /\ ret.op = "run_simulation"
    /\ ret.res.ok
    /\ Len(ret.res.val) = MaxRounds
    /\ Len(Stored(pre.sim_store, ret.id)) = MaxRounds
    /\ Len(Stored(sim_store, ret.id)) = 2 * MaxRounds

SimulationCalls == {"run_simulation", "run_simulation_with_config"}

\* C17: run_simulation and run_simulation_with_config on an entity id that
\* is not in the registry return the registry's error, run no round and save
\* no result
C17_UnregisteredEntityFails ==
    (ret.op \in SimulationCalls /\ ret.id \notin DOMAIN pre.registry) =>
        /\ ~ret.res.ok
        /\ ret.res.err = <<"Erro do registro: ", "Entidade não encontrada: ", ret.id>>
        /\ sim_store = pre.sim_store
        /\ runs[Len(runs)].order = <<>>

\* run_simulation_with_config failed on the unregistered id, MaxRounds rounds
\* being asked for, after a call had succeeded in an earlier process
C17_Witness ==
    /\ ret.op = "run_simulation_with_config"
    /\ ret.id \notin DOMAIN pre.registry
    /\ ret.config.rounds = MaxRounds
    /\ ~ret.res.ok
    /\ Len(runs) = 2
    /\ runs[1].res.ok

\* per round, the metric map and the event list of the results
Outcome(results) ==
    [i \in DOMAIN results |-> [metrics |-> results[i].metrics, events |-> results[i].events]]

\* the calls of run_simulation_with_config that returned results
Completed == { i \in DOMAIN runs : runs[i].op = "run_simulation_with_config" /\ runs[i].res.ok }

\* the scenario the calls of this behaviour use
UsedScenario == scenario_of(input.entity_type, input.config).val

\* the events of a scenario whose probability is 1.0, for the entity
CertainEvents(scenario, entity_id) ==
    LET certain == SelectSeq(scenario.events, LAMBDA e : e.probability = 1000)
    IN [i \in DOMAIN certain |-> <<certain[i].name, ":entity=", entity_id>>]

\* C18: in Deterministic mode with a seed, two calls of
\* run_simulation_with_config with the same entity type and configuration
\* return, round by round, the same metric maps and event lists: each
\* metric is the midpoint of its range in the scenario, and the events are
\* those of probability 1.0
C18_DeterministicRuns ==
    (input.config.mode = "Deterministic" /\ input.config.random_seed.some) =>
        /\ \A i, j \in Completed : Outcome(runs[i].res.val) = Outcome(runs[j].res.val)
        /\ \A i \in Completed : \A k \in DOMAIN runs[i].res.val :
               /\ runs[i].res.val[k].metrics =
                      [m \in MetricNames |->
                          (UsedScenario.metrics[m][1] + UsedScenario.metrics[m][2]) \div 2]
               /\ runs[i].res.val[k].events = CertainEvents(UsedScenario, runs[i].id)

\* two Deterministic calls with a seed returned MaxRounds results each, in
\* two processes whose metrics maps iterate in different orders
C18_Witness ==
    /\ input.config.mode = "Deterministic"
    /\ input.config.random_seed.some
    /\ Completed = {1, 2}
    /\ Len(runs[2].res.val) = MaxRounds
    /\ runs[1].order # runs[2].order

\* C19 (does not hold): with a seed, two runs of run_simulation_with_config
\* with the same configuration in Random or in Scenario mode return the
\* same metric values and events per round, in whatever order the
\* scenario's metrics are visited
C19_SeededRunsAgree ==
    (input.config.mode \in {"Random", "Scenario"} /\ input.config.random_seed.some) =>
        \A i, j \in Completed : Outcome(runs[i].res.val) = Outcome(runs[j].res.val)

\* with a seed the runs in Random mode agree, and so do the runs in Scenario
\* mode that visit the scenario's metrics in the same order
SeededRunsAgreeInOrder ==
    (input.config.mode \in {"Random", "Scenario"} /\ input.config.random_seed.some) =>
        \A i, j \in Completed :
            runs[i].order = runs[j].order
                => Outcome(runs[i].res.val) = Outcome(runs[j].res.val)

\* the runs of one process visit the metrics of a scenario in one order
OneOrderPerProcess ==
    [][ret'.op # "restart" /\ ret.op # "restart"
            => \A name \in DOMAIN metrics_order :
                   name \in DOMAIN metrics_order' /\ metrics_order'[name] = metrics_order[name]]_vars

\* two seeded runs in Scenario mode visited the metrics in different orders
SeededScenarioRunsInTwoOrders ==
    /\ input.config.mode = "Scenario"
    /\ input.config.random_seed.some
    /\ Completed = {1, 2}
    /\ runs[1].order # runs[2].order
    /\ runs[1].order # <<>>
    /\ runs[2].order # <<>>

\* the results that have a success_rate metric
Rated(results) == SelectSeq(results, LAMBDA r : "success_rate" \in DOMAIN r.metrics)

\* the sum of the success_rate values of the first n of the results
RECURSIVE SumOfRates(_, _)
SumOfRates(results, n) ==
    IF n = 0 THEN 0 ELSE SumOfRates(results, n - 1) + results[n].metrics["success_rate"]

\* C20: evaluate_simulation returns 0.0 for the empty list and for results
\* none of which has a success_rate; otherwise the arithmetic mean of the
\* success_rate values of the results that have one; for results that the
\* simulation produced the score lies in [0.0, 1.0]
C20_EvaluateSimulation ==
    ret.op = "evaluate_simulation" =>
        /\ Rated(ret.results) = <<>> => ret.res.num = 0
        /\ Rated(ret.results) # <<>> =>
               ret.res.num * Len(Rated(ret.results)) =
                   SumOfRates(Rated(ret.results), Len(Rated(ret.results))) * ret.res.den
        /\ ret.res.den > 0
        /\ 0 <= ret.res.num
        /\ ret.res.num <= 1000 * ret.res.den

\* evaluate_simulation was handed results of which some have a success_rate
\* and some have none
C20_Witness ==
    /\ ret.op = "evaluate_simulation"
    /\ Len(ret.results) = 2 * MaxRounds
    /\ Len(Rated(ret.results)) = 2 * MaxRounds - 1
    /\ ret.res.num > 500 * ret.res.den

----------------------------------------------------------------------------
(* Properties of the plugin host *)

\* invoke was called on a plugin that has no record
InvokedAbsent == ret.op = "invoke" /\ ret.plugin_name \notin DOMAIN pre.plugins

\* invoke was called on a record that maps no function for the hook
InvokedUnmapped ==
    /\ ret.op = "invoke"
    /\ ret.plugin_name \in DOMAIN pre.plugins
    /\ ret.function \notin DOMAIN pre.plugins[ret.plugin_name].functions

\* C21: invoke returns PluginNotFound when PLUGINS has no record of the
\* plugin id, whatever the hook, and FunctionNotFound when the record maps
\* no function for the hook; in both cases no memory of a plugin is read
\* and PLUGINS is unchanged
C21_InvokeLookupErrors ==
    /\ InvokedAbsent =>
           /\ ~ret.res.ok
           /\ ret.res.err = PluginError("PluginNotFound", ret.plugin_name)
    /\ InvokedUnmapped =>
           /\ ~ret.res.ok
           /\ ret.res.err = PluginError("FunctionNotFound",
                                        <<ret.function, " em ", ret.plugin_name>>)
    /\ InvokedAbsent \/ InvokedUnmapped =>
           /\ plugins = pre.plugins
           /\ ~ret.crashed
           /\ ~ret.outside

\* invoke returned FunctionNotFound for a hook that the metadata of the
\* record declares and the module does not export
C21_Witness ==
    /\ InvokedUnmapped
    /\ ret.res.err.variant = "FunctionNotFound"
    /\ \E i \in DOMAIN plugins[ret.plugin_name].metadata.hooks :
           plugins[ret.plugin_name].metadata.hooks[i] = ret.function

\* invoke was called on a record that maps a function for the hook
InvokedMapped ==
    /\ ret.op = "invoke"
    /\ ret.plugin_name \in DOMAIN pre.plugins
    /\ ret.function \in DOMAIN pre.plugins[ret.plugin_name].functions

\* C22 (does not hold): invoke on an active plugin that declares and exports
\* the hook returns the response of the plugin, which for the echo plugin is
\* the payload
C22_InvokeReturnsResponse ==
    InvokedMapped => ret.res.ok /\ ret.res.val = ret.payload

\* invoke on a record that maps the hook returns the error of
\* create_or_get_instance, and PLUGINS is unchanged
InvokeMappedInternal ==
    InvokedMapped =>
        /\ ~ret.res.ok
        /\ ret.res.err = PluginError("Internal", "Not implemented in this example")
        /\ plugins = pre.plugins

\* invoke was called for the hook run of the loaded echo plugin
InvokedEcho ==
    /\ InvokedMapped
    /\ ret.function = "run"
    /\ plugins[ret.plugin_name].metadata.name = "echo"

\* the modules that load_plugin loads, whatever lies outside their memory
Loadable == {"v1", "v2", "partial"}

\* the record load_plugin builds from the file path of the directory
BuiltFrom(path) == load_plugin(EmptyMap, plugin_dir, path, TRUE, Crash).table[path.stem]

\* the watcher task has processed an event of one of the kinds
WatcherProcessed(kinds) == ret.op = "process_watcher_event" /\ ret.event.kind \in kinds

\* C23 (does not hold): once the watcher task has processed a Create or
\* Modify event for a *.wasm file that loads, PLUGINS holds under the stem
\* of the file the record built from the contents of the file
C23_HotReload ==
    WatcherProcessed({"Create", "Modify"}) =>
        \A i \in DOMAIN ret.event.paths :
            LET path == ret.event.paths[i] IN
            (/\ is_wasm_file(path)
             /\ path \in DOMAIN plugin_dir
             /\ plugin_dir[path] \in Loadable
             /\ input.wasi_ok)
                => /\ path.stem \in DOMAIN plugins
                   /\ plugins[path.stem] = BuiltFrom(path)

\* the watcher task leaves PLUGINS as it found it
WatcherKeepsPlugins == ret.op = "process_watcher_event" => plugins = pre.plugins

\* the watcher task processed the Modify event of a *.wasm file of a loaded
\* plugin, the file holding another version than the record
ModifyProcessed ==
    /\ WatcherProcessed({"Modify"})
    /\ ret.logged # <<>>
    /\ ret.logged[1] \in DOMAIN plugin_dir
    /\ plugin_dir[ret.logged[1]] \in Loadable
    /\ ret.logged[1].stem \in DOMAIN plugins
    /\ plugins[ret.logged[1].stem] # BuiltFrom(ret.logged[1])

\* C24 (does not hold): once the watcher task has processed the Remove
\* event of a *.wasm file, or reload_all_plugins has scanned the directory
\* again, PLUGINS has no record of a plugin whose file is gone, so that
\* list_plugins omits it and invoke returns PluginNotFound
C24_RemovedPluginDropped ==
    /\ WatcherProcessed({"Remove"}) =>
           \A i \in DOMAIN ret.event.paths :
               (is_wasm_file(ret.event.paths[i]) /\ ret.event.paths[i] \notin DOMAIN plugin_dir)
                   => ret.event.paths[i].stem \notin DOMAIN plugins
    /\ (ret.op = "reload_all_plugins" /\ ~ret.crashed) =>
           \A id \in DOMAIN plugins : Wasm(id) \in DOMAIN plugin_dir

\* no record leaves PLUGINS while the process lives
RecordsStay == [][plugins' = EmptyMap \/ DOMAIN plugins \subseteq DOMAIN plugins']_vars

\* reload_all_plugins returned while PLUGINS held the record of a plugin
\* whose file had been removed
RescannedWithoutFile ==
    /\ ret.op = "reload_all_plugins"
    /\ ~ret.crashed
    /\ \E id \in DOMAIN plugins : Wasm(id) \notin DOMAIN plugin_dir

\* the *.wasm files of the directory
WasmFiles == { p \in DOMAIN plugin_dir : is_wasm_file(p) }

\* whether load_plugin loads the file path, the reads outside a memory
\* meeting what the last call met
Loads(path) == load_plugin(EmptyMap, plugin_dir, path, input.wasi_ok, ret.met).res.ok

\* the record of the plugin id is as the last call found it
RecordKept(id) ==
    /\ id \in DOMAIN plugins <=> id \in DOMAIN pre.plugins
    /\ id \in DOMAIN plugins => plugins[id] = pre.plugins[id]

\* C25: a load_plugin that fails, at whichever stage, leaves PLUGINS
\* unchanged, so that the record the id had stays; reload_all_plugins goes on
\* after a file that fails to load, leaves the record of that file's id as it
\* was, loads the other files and returns the number of files it loaded
C25_FailedLoadKeepsTable ==
    /\ (ret.op = "load_plugin" /\ ~ret.crashed /\ ~ret.res.ok) => plugins = pre.plugins
    /\ (ret.op = "reload_all_plugins" /\ ~ret.crashed) =>
           /\ ret.res.ok
           /\ ret.res.val = Cardinality({ p \in WasmFiles : Loads(p) })
           /\ \A p \in WasmFiles :
                  IF Loads(p) THEN p.stem \in DOMAIN plugins ELSE RecordKept(p.stem)
           /\ \A id \in DOMAIN plugins : Wasm(id) \notin WasmFiles => RecordKept(id)

\* reload_all_plugins loaded one file and failed on another, whose id kept
\* the record of an earlier version
C25_Witness ==
    /\ ret.op = "reload_all_plugins"
    /\ ~ret.crashed
    /\ ret.res.val = 1
    /\ \E p \in WasmFiles : ~Loads(p) /\ p.stem \in DOMAIN plugins
    /\ \E p \in WasmFiles : Loads(p) /\ p.stem \notin DOMAIN pre.plugins

\* load_plugin failed at the stage, named by the variant it returns
FailedAt(stage) ==
    /\ ret.op = "load_plugin"
    /\ ~ret.crashed
    /\ ~ret.res.ok
    /\ ret.res.err.variant = stage

FailedAtIo == FailedAt("IoError")
FailedAtCompile == FailedAt("WasmCompileError")
FailedAtWasi == FailedAt("WasiError")
FailedAtImport == FailedAt("WasmImportError")
FailedAtInstantiation == FailedAt("WasmInstantiationError")
FailedAtMetadata == FailedAt("MetadataError")

\* the records a listing yielded for a plugin id
Yielded(listing, id) == { i \in DOMAIN listing : listing[i].id = id }

\* a listing holds, for each plugin id, one of the records that were live
\* during the call: never two of them, and none only if the id had none
ListedOnce(call) ==
    \A id \in Range(ShardOrder) :
        /\ Cardinality(Yielded(call.seen, id)) <= 1
        /\ \A i \in Yielded(call.seen, id) : <<call.seen[i]>> \in call.live[id]
        /\ Yielded(call.seen, id) = {} => <<>> \in call.live[id]

\* while a call holds the guard of a record, that record is the one of its id
GuardedRecordStays ==
    \A t \in Threads :
        threads[t].pc = "invoke" =>
            /\ threads[t].id \in DOMAIN plugins
            /\ plugins[threads[t].id] = threads[t].seen[1]

\* C26: every plugin id has at most one record; a successful load_plugin
\* leaves the new record under its id in the step that returns, with every
\* other record kept; a record is not replaced while an invoke holds it; and
\* a list_plugins that runs while records are replaced yields for each id
\* exactly one record, the old one or the new one.
C26_OneRecordPerId ==
    /\ \A id \in DOMAIN plugins : plugins[id].id = id
    /\ GuardedRecordStays
    /\ (ret.op = "load_plugin" /\ ret.res.ok) =>
           /\ plugins = Put(pre.plugins, ret.path.stem, ret.res.val)
    /\ ret.op = "invoke" =>
           /\ ret.plugin_name \in DOMAIN pre.plugins <=> ret.seen # <<>>
           /\ ret.seen # <<>> => ret.seen[1] = pre.plugins[ret.plugin_name]
    /\ ret.op = "list_plugins" => ListedOnce(ret)

\* a listing returned during which the record of echo was replaced
C26_Witness ==
    /\ ret.op = "list_plugins"
    /\ Cardinality(ret.live["echo"]) = 2
    /\ Len(ret.seen) = 2
    /\ ListedOnce(ret)

\* a load waits for the guard that an invoke holds on the record it replaces
LoadWaitsForInvoke ==
    \E t, u \in Threads :
        /\ threads[t].pc = "invoke" /\ threads[t].hook = "run"
        /\ threads[u].pc = "load" /\ threads[u].path.stem = threads[t].id
        /\ threads[u].dir[threads[u].path] = "v2"

\* the range (ptr, len) that get_metadata of a module returns is negative
\* or ends beyond the module's linear memory
RangeLeavesMemory(module) ==
    /\ module.fault = "none"
    /\ {"get_metadata", "memory"} \subseteq module.exports
    /\ ~module.trap
    /\ Len(module.results) >= 2
    /\ \/ module.results[1] < 0
       \/ module.results[2] < 0
       \/ module.results[1] + module.results[2] > Len(module.memory)

\* a load_plugin returned, or died, on a file whose module answers
\* get_metadata with such a range
LoadedOutOfRange ==
    /\ ret.op = "load_plugin"
    /\ input.wasi_ok
    /\ ret.path \in DOMAIN plugin_dir
    /\ RangeLeavesMemory(Modules[plugin_dir[ret.path]])

\* C27 (does not hold): when get_metadata returns a range that is negative
\* or ends beyond the linear memory, the host reads no byte outside the
\* memory and load_plugin returns WasmExecutionError.
C27_RangeChecked ==
    LoadedOutOfRange =>
        /\ ~ret.outside
        /\ ~ret.crashed
        /\ ~ret.res.ok
        /\ ret.res.err.variant = "WasmExecutionError"

\* what holds instead: the read always leaves the memory, and the call
\* either dies or goes on with the bytes it met outside, which end as a
\* MetadataError or as a record built from them
OutOfRangeIsRead ==
    LoadedOutOfRange =>
        /\ ret.outside
        /\ \/ ret.crashed
           \/ ~ret.res.ok /\ ret.res.err.variant = "MetadataError"
           \/ ret.res.ok /\ plugins[ret.path.stem] = ret.res.val

\* the three outcomes of such a load
OutOfRangeCrashed == LoadedOutOfRange /\ ret.crashed

OutOfRangeLoaded == LoadedOutOfRange /\ ~ret.crashed /\ ret.res.ok

OutOfRangeNegative ==
    /\ LoadedOutOfRange
    /\ Modules[plugin_dir[ret.path]].results[1] < 0
    /\ ~ret.crashed
    /\ ~ret.res.ok

----------------------------------------------------------------------------
(* Properties of the HTTP gateway *)

\* the events the command of the last call appended
CommandEvents == SubSeq(timeline, Len(pre.timeline) + 1, Len(timeline))

\* C28: a POST /dsl answered 200 hands exactly one event to the broker, of
\* kind command_executed, on the channels commands and default, whose
\* payload is the response, and the response lists the timeline with the
\* command's events in it; the broker holds one event more, or what it held
\* when the publish failed; an answer other than 200 hands nothing to the
\* broker; and the answer is 200 whenever the command and the listing
\* succeeded, whether the publish did or not.
C28_CommandExecutedPublished ==
    ret.op = "handle_dsl" =>
        /\ ret.status = 200 <=> (ret.res.ok /\ ret.listed_ok)
        /\ ret.status = 200 =>
               /\ ret.body.result = ret.res.val
               /\ ret.body.events = timeline
               /\ CommandEvents # <<>>
               /\ ret.attempts = << [kind |-> "command_executed", payload |-> ret.body,
                                     channels |-> {"commands", "default"}] >>
               /\ published = IF ret.publish_ok
                              THEN Append(pre.published, ret.attempts[1])
                              ELSE pre.published
        /\ ret.status # 200 =>
               /\ ret.attempts = <<>>
               /\ published = pre.published

\* a command answered 200 although its publish failed, after one that was
\* published
C28_Witness ==
    /\ ret.op = "handle_dsl"
    /\ ret.status = 200
    /\ ~ret.publish_ok
    /\ Len(published) = 1
    /\ Len(ret.body.events) >= 2

\* the context of the ErrorOccurred event a failed command appended
ErrorContext == timeline[Len(timeline)].kind.context

FailedCommand ==
    /\ ret.op = "handle_dsl"
    /\ ~ret.res.ok
    /\ timeline # <<>>
    /\ timeline[Len(timeline)].kind.tag = "ErrorOccurred"

\* C29 (does not hold): a failed command is answered 400 exactly when its
\* error is a parse or a validation error, and 500 when it is a storage
\* failure.
C29_StatusByErrorClass ==
    FailedCommand =>
        /\ ret.status = 400 <=> ErrorContext \in {"parsing", "validation"}
        /\ ErrorContext = "storage" => ret.status = 500

\* what holds instead: every error of process_command is answered 400, and
\* 500 is the answer only when the timeline cannot be listed after a
\* command that succeeded
CommandErrorsAre400 ==
    ret.op = "handle_dsl" =>
        /\ ~ret.res.ok => ret.status = 400 /\ ret.body.status = 400
        /\ ret.status = 500 <=> (ret.res.ok /\ ~ret.listed_ok)
        /\ ret.status \in {200, 400, 500}

StorageFailureAnswered400 ==
    FailedCommand /\ ErrorContext = "storage" /\ ret.status = 400

ParseErrorAnswered400 ==
    FailedCommand /\ ErrorContext = "parsing" /\ ret.status = 400

ValidationErrorAnswered400 ==
    FailedCommand /\ ErrorContext = "validation" /\ ret.status = 400

DuplicateAnswered400 ==
    /\ ValidationErrorAnswered400
    /\ ret.text = CmdDefineContract

----------------------------------------------------------------------------
(* Properties of the timeline under tasks that run at once *)

\* C30 (does not hold): list_events returns the events in the order of
\* their appends, and every event of the timeline has an id strictly greater
\* than the id of every event appended before it.
C30_TimelineMonotonic ==
    /\ ret.op = "list_events" =>
           ret.res = [i \in DOMAIN runs |-> runs[i].event]
    /\ \A i, j \in DOMAIN timeline : i < j => timeline[i].id < timeline[j].id

\* what holds instead: the listing is in append order and the ids only
\* differ
ListedInAppendOrder ==
    /\ timeline = [i \in DOMAIN runs |-> runs[i].event]
    /\ ret.op = "list_events" => ret.res = timeline
    /\ \A i, j \in DOMAIN timeline : i # j => timeline[i].id # timeline[j].id

\* the appends of two tasks crossed: the event made first was appended last
AppendsCrossed ==
    /\ ret.op = "list_events"
    /\ \E i, j \in DOMAIN ret.res :
           /\ i < j
           /\ ret.res[i].timestamp > ret.res[j].timestamp
           /\ runs[i].thread # runs[j].thread

\* one task alone made and appended two events, the second with the
\* smaller id
OneTaskIdsFall ==
    /\ ret.op = "list_events"
    /\ \E i, j \in DOMAIN ret.res :
           /\ i < j
           /\ runs[i].thread = runs[j].thread
           /\ ret.res[i].id > ret.res[j].id

----------------------------------------------------------------------------
(* Properties of the stores' record lifecycle *)

\* the store a call of update_contract or update_idea works on, before and
\* after the call
UpdatedStore(before) ==
    IF ret.op = "update_contract"
    THEN IF before THEN pre.contracts ELSE contracts
    ELSE IF before THEN pre.ideas ELSE ideas

\* the records other than the one of the call are what they were
OthersKept(old, new, id) ==
    /\ DOMAIN new = DOMAIN old
    /\ \A other \in DOMAIN old \ {id} : new[other] = old[other]

\* the record of a successful update: the payload replaced, id and
\* created_at kept, updated_at not before created_at
UpdatedRecord(old, new) ==
    /\ new.id = old.id
    /\ new.created_at = old.created_at
    /\ new.updated_at >= new.created_at
    /\ new.updated_at >= old.updated_at
    /\ IF ret.op = "update_contract"
       THEN new.clauses = ret.payload
       ELSE new.text = ret.payload /\ new.tags = old.tags

\* C34: update_contract and update_idea on an absent id return an error and
\* leave the store as it was; on a present id they succeed, replace the
\* clauses or the text, keep id and created_at, set updated_at to a time
\* not earlier than created_at, and leave every other record as it was.
C34_UpdateReplacesPayload ==
    ret.op \in {"update_contract", "update_idea"} =>
        IF ret.id \notin DOMAIN UpdatedStore(TRUE)
        THEN /\ ~ret.res.ok
             /\ UpdatedStore(FALSE) = UpdatedStore(TRUE)
        ELSE /\ ret.res.ok
             /\ OthersKept(UpdatedStore(TRUE), UpdatedStore(FALSE), ret.id)
             /\ UpdatedRecord(UpdatedStore(TRUE)[ret.id], UpdatedStore(FALSE)[ret.id])

\* a contract updated at a later time than it was created, beside another
\* contract
C34_Witness ==
    /\ ret.op = "update_contract"
    /\ ret.res.ok
    /\ Cardinality(DOMAIN contracts) = 2
    /\ contracts[ret.id].updated_at > contracts[ret.id].created_at
    /\ contracts[ret.id].clauses # pre.contracts[ret.id].clauses

\* the same for an idea, and an update refused for an absent id
IdeaUpdated ==
    /\ ret.op = "update_idea"
    /\ ret.res.ok
    /\ ideas[ret.id].text # pre.ideas[ret.id].text

UpdateOfAbsentRefused ==
    /\ ret.op \in {"update_contract", "update_idea"}
    /\ ~ret.res.ok
    /\ DOMAIN UpdatedStore(TRUE) # {}

\* callers that go on for ever: an id that is absent is created again, and
\* a record that can be removed is removed again
SpecStoresFair ==
    /\ SpecStores
    /\ WF_vars(NextStores)
    /\ SF_vars(\E id \in StoreIds, cl \in ClauseLists :
                   OnContracts /\ id \notin DOMAIN contracts /\ CreateContract(id, cl))
    /\ SF_vars(\E id \in StoreIds, t \in IdeaTexts :
                   OnIdeas /\ id \notin DOMAIN ideas /\ CreateIdea(id, t))
    /\ SF_vars(\E id \in StoreIds : OnIdeas /\ id \in DOMAIN ideas /\ RemoveIdea(id))

ContractCreated == ret.op = "create_contract" /\ ret.res.ok

IdeaCreated == ret.op = "create_idea" /\ ret.res.ok

\* C35 (does not hold): in both stores a record can be removed, so that for
\* callers who keep removing and creating, a create succeeds again and
\* again; a get after a remove fails, and a remove of an absent id returns
\* an error and changes nothing.
C35_RecordsRemovable ==
    /\ <>(ret.op \in ContractCalls) => []<>ContractCreated
    /\ <>(ret.op \in IdeaCalls) => []<>IdeaCreated
    /\ [](ret.op = "remove_idea" =>
              /\ ret.res.ok <=> ret.id \in DOMAIN pre.ideas
              /\ ret.id \notin DOMAIN ideas
              /\ ~get_idea(ideas, ret.id).ok
              /\ ~ret.res.ok => ideas = pre.ideas)

\* what holds instead: the claim is true of ideas
IdeasRemovable ==
    /\ <>(ret.op \in IdeaCalls) => []<>IdeaCreated
    /\ [](ret.op = "remove_idea" =>
              /\ ret.res.ok <=> ret.id \in DOMAIN pre.ideas
              /\ ret.id \notin DOMAIN ideas
              /\ ~get_idea(ideas, ret.id).ok
              /\ OthersKept(pre.ideas, [id \in DOMAIN pre.ideas |->
                                           IF id \in DOMAIN ideas THEN ideas[id]
                                           ELSE pre.ideas[id]], ret.id))

\* and no call of the contracts library takes a contract away
ContractsStay == [][DOMAIN contracts \subseteq DOMAIN contracts']_vars

\* an idea removed beside another one
IdeaRemoved ==
    /\ ret.op = "remove_idea"
    /\ ret.res.ok
    /\ Cardinality(DOMAIN ideas) = 1

\* both ids hold a contract: no create_contract can succeed any more
ContractStoreFull == DOMAIN contracts = StoreIds

----------------------------------------------------------------------------
(* Properties of the scenario a simulation runs *)

\* the success_rate of a deterministic round of a scenario: the midpoint
\* of its range in SCENARIOS
MidRate(name) ==
    (SCENARIOS[name].metrics["success_rate"][1]
        + SCENARIOS[name].metrics["success_rate"][2]) \div 2

\* run_simulation_with_config returned for the registered entity
RanWithConfig ==
    /\ ret.op = "run_simulation_with_config"
    /\ ret.id \in DOMAIN registry

\* the scenario of a call is the named one, or chosen by contract_type(t),
\* which tells whether t is the type of contracts
RunsScenarioOf(contract_type) ==
    RanWithConfig =>
        IF ret.config.scenario.some /\ ret.config.scenario.val \notin DOMAIN SCENARIOS
        THEN /\ ~ret.res.ok
             /\ ret.res.err = <<"Cenário ", ret.config.scenario.val, " não encontrado">>
             /\ sim_store = pre.sim_store
        ELSE /\ ret.res.ok
             /\ Len(ret.res.val) = ret.config.rounds
             /\ \A i \in DOMAIN ret.res.val :
                    ret.res.val[i].metrics["success_rate"] =
                        MidRate(IF ret.config.scenario.some THEN ret.config.scenario.val
                                ELSE IF contract_type THEN "high_performance"
                                ELSE "normal")

\* C36 as stated (does not hold): without a named scenario the registered
\* type CONTRACT gives high_performance and every other type gives normal;
\* a named scenario outside the catalog fails with ScenarioNotFound and
\* nothing is stored.
C36_ScenarioByExactType ==
    RunsScenarioOf(ret.id \in DOMAIN registry /\ registry[ret.id].entity_type = "CONTRACT")

\* C36: without a named scenario a registered type that reads CONTRACT once
\* upper-cased gives high_performance and every other type gives normal; a
\* named scenario outside the catalog fails with ScenarioNotFound and
\* nothing is stored.
C36_ScenarioByType ==
    RunsScenarioOf(ret.id \in DOMAIN registry
                       /\ to_uppercase(registry[ret.id].entity_type) = "CONTRACT")

\* a contract simulated without a named scenario, for a round or more
C36_Witness ==
    /\ RanWithConfig
    /\ registry[ret.id].entity_type = "CONTRACT"
    /\ ~ret.config.scenario.some
    /\ ret.res.ok
    /\ ret.res.val # <<>>
    /\ ret.res.val[1].metrics["success_rate"] = 950

LowerCaseContractRunsHigh ==
    /\ RanWithConfig
    /\ registry[ret.id].entity_type = "contract"
    /\ ~ret.config.scenario.some
    /\ ret.res.ok
    /\ ret.res.val # <<>>
    /\ ret.res.val[1].metrics["success_rate"] = 950

IdeaRunsNormal ==
    /\ RanWithConfig
    /\ registry[ret.id].entity_type = "IDEA"
    /\ ~ret.config.scenario.some
    /\ ret.res.ok
    /\ ret.res.val # <<>>
    /\ ret.res.val[1].metrics["success_rate"] = 800

MissingScenarioRefused ==
    /\ RanWithConfig
    /\ ret.config.scenario = Some("missing")
    /\ ret.config.rounds > 0
    /\ ~ret.res.ok

----------------------------------------------------------------------------
(* Properties of the scenario modifiers *)

\* the last call of run_simulation_with_config, as the history keeps it
LastRun == runs[Len(runs)]

\* run_simulation_with_config returned its rounds for a seeded configuration
SeededRun ==
    /\ ret.op = "run_simulation_with_config"
    /\ ret.res.ok
    /\ ret.config.random_seed.some
    /\ runs # <<>>
    /\ LastRun.res = ret.res

\* the rounds of the same call on a scenario that has no modifier
Unmodified(scenario) ==
    simulation_rounds(SimulationEngine_new(ret.config, 0), EmptyMap, ret.id,
                      [scenario EXCEPT !.modifiers = <<>>], 1, ret.config.rounds, <<>>,
                      LastRun.order).res.val

\* the factors of the modifiers of a scenario on a metric, multiplied
RECURSIVE Scaled(_, _, _)
Scaled(value, metric, modifiers) ==
    IF modifiers = <<>> THEN value
    ELSE Scaled(IF Head(modifiers).metric = metric
                THEN (value * Head(modifiers).factor) \div 1000
                ELSE value,
                metric, Tail(modifiers))

\* every round has the events of the unmodified round, and its metrics
\* scaled by the modifiers given
RoundsScaled(rounds, plain, modifiers) ==
    /\ Len(rounds) = Len(plain)
    /\ \A i \in DOMAIN rounds :
           /\ rounds[i].events = plain[i].events
           /\ DOMAIN rounds[i].metrics = DOMAIN plain[i].metrics
           /\ \A metric \in DOMAIN rounds[i].metrics :
                  rounds[i].metrics[metric] = Scaled(plain[i].metrics[metric], metric, modifiers)

DeterministicNotModified ==
    /\ SeededRun
    /\ ret.config.mode = "Deterministic"
    /\ UsedScenario.name = "low_performance"
    /\ ret.res.val # <<>>
    /\ ret.res.val[1].metrics["success_rate"] = 550

RandomNotModified ==
    /\ SeededRun
    /\ ret.config.mode = "Random"
    /\ UsedScenario.name = "low_performance"
    /\ ret.res.val # <<>>

----------------------------------------------------------------------------
(* Properties of creations that run at once *)

\* the calls that created a record of a library under an id
Winners(lib, id) ==
    { i \in DOMAIN runs : runs[i].lib = lib /\ runs[i].id = id /\ runs[i].res.ok }

StoreOf(lib) == IF lib = "contracts" THEN contracts ELSE ideas

\* the payload of a record of a library
PayloadOf(lib, record) == IF lib = "contracts" THEN record.clauses ELSE record.text

\* C38: of the calls of create_contract, or of create_idea, that were made
\* for one id, at once or one after the other, exactly one succeeded when
\* the id has a record and none otherwise; every other call returned an
\* error; and the record is the one the successful call built.
C38_OneCreateWins ==
    \A lib \in {"contracts", "ideas"}, id \in StoreIds :
        /\ Cardinality(Winners(lib, id)) = IF id \in DOMAIN StoreOf(lib) THEN 1 ELSE 0
        /\ \A i \in Winners(lib, id) :
               /\ StoreOf(lib)[id].id = id
               /\ PayloadOf(lib, StoreOf(lib)[id]) = runs[i].payload
               /\ StoreOf(lib)[id].created_at = runs[i].time
               /\ StoreOf(lib)[id].updated_at = runs[i].time
        /\ \A i \in DOMAIN runs :
               (runs[i].lib = lib /\ runs[i].id = id /\ i \notin Winners(lib, id)) =>
                   /\ ~runs[i].res.ok
                   /\ \E w \in Winners(lib, id) : w < i

\* two calls for one new id overlapped: the one that read the clock first
\* took the mutex last and lost
C38_Witness ==
    /\ Len(runs) = 2
    /\ runs[1].lib = "contracts"
    /\ runs[2].lib = "contracts"
    /\ runs[1].id = runs[2].id
    /\ runs[1].thread # runs[2].thread
    /\ runs[1].res.ok
    /\ ~runs[2].res.ok
    /\ runs[2].time < runs[1].time
    /\ contracts[runs[1].id].clauses = runs[1].payload
    /\ runs[1].payload # runs[2].payload

IdeaCreatorsOverlapped ==
    /\ Len(runs) = 2
    /\ runs[1].lib = "ideas"
    /\ runs[2].lib = "ideas"
    /\ runs[1].id = runs[2].id
    /\ runs[1].thread # runs[2].thread
    /\ runs[2].time < runs[1].time
    /\ ~runs[2].res.ok

----------------------------------------------------------------------------
(* Properties of the tags of an idea *)

\* where a tag stands first in a list
FirstAt(l, x) == CHOOSE i \in DOMAIN l : l[i] = x /\ \A j \in 1..(i - 1) : l[j] # x

\* the tags a call pushed
Pushed(old, new) == SubSeq(new.tags, Len(old.tags) + 1, Len(new.tags))

\* what a successful add_tags made of the record old with the slice tags: the
\* tags the idea held stay where they were; the tags of the slice that it
\* did not hold follow, once each, in the order of their first place in the
\* slice; nothing but updated_at changes besides
TagsAdded(old, new, tags, time) ==
    /\ Len(old.tags) <= Len(new.tags)
    /\ SubSeq(new.tags, 1, Len(old.tags)) = old.tags
    /\ Range(Pushed(old, new)) = Range(tags) \ Range(old.tags)
    /\ NoDuplicates(Pushed(old, new))
    /\ \A i, j \in DOMAIN Pushed(old, new) :
           i < j => FirstAt(tags, Pushed(old, new)[i]) < FirstAt(tags, Pushed(old, new)[j])
    /\ Range(tags) \subseteq Range(old.tags) => new.tags = old.tags
    /\ new = [old EXCEPT !.tags = new.tags, !.updated_at = new.updated_at]

\* C40: no idea holds a tag twice; a successful add_tags keeps the tags the
\* idea held in their places and pushes the absent tags of its slice once
\* each in the order of their first place in the slice, so that the list is
\* in the order of first insertion; when the idea holds every tag of the
\* slice only updated_at changes; add_tags on an absent id returns an error
\* and changes no record; create_idea starts with no tag and update_idea
\* keeps the tags.
C40_TagsOnceInOrder ==
    /\ \A id \in DOMAIN ideas : NoDuplicates(ideas[id].tags)
    /\ (ret.op = "add_tags" /\ ret.res.ok) =>
           /\ ret.id \in DOMAIN pre.ideas
           /\ DOMAIN ideas = DOMAIN pre.ideas
           /\ TagsAdded(pre.ideas[ret.id], ideas[ret.id], ret.payload, now)
           /\ \A id \in DOMAIN ideas \ {ret.id} : ideas[id] = pre.ideas[id]
    /\ (ret.op = "add_tags" /\ ~ret.res.ok) =>
           /\ ret.id \notin DOMAIN pre.ideas
           /\ ideas = pre.ideas
    /\ (ret.op = "create_idea" /\ ret.res.ok) => ideas[ret.id].tags = <<>>
    /\ (ret.op = "update_idea" /\ ret.res.ok) => ideas[ret.id].tags = pre.ideas[ret.id].tags

\* a slice that names a new tag twice around a held tag was added to an idea
\* with a tag: the new tag follows the held one, once
C40_Witness ==
    /\ ret.op = "add_tags"
    /\ ret.res.ok
    /\ ret.payload = <<"y", "x", "y">>
    /\ pre.ideas[ret.id].tags = <<"x">>
    /\ ideas[ret.id].tags = <<"x", "y">>

\* a slice of held tags was added again: only updated_at moved
TagsAddedAgain ==
    /\ ret.op = "add_tags"
    /\ ret.res.ok
    /\ ret.payload = <<"x", "x">>
    /\ pre.ideas[ret.id].tags = <<"x">>
    /\ ideas[ret.id].tags = <<"x">>
    /\ ideas[ret.id].updated_at > pre.ideas[ret.id].updated_at

TagsOfAbsentRefused ==
    /\ ret.op = "add_tags"
    /\ ~ret.res.ok
    /\ ideas # EmptyMap

\* the tags went with the idea that was removed
RecreatedWithoutTags ==
    /\ ret.op = "create_idea"
    /\ ret.res.ok
    /\ \E id \in DOMAIN ideas \ {ret.id} : ideas[id].tags # <<>>
    /\ origin.ideas[ret.id].rec.tags = <<>>

----------------------------------------------------------------------------
(* Properties of the locks of invoke and load_plugin *)

\* invoke of thread t holds the entry of its plugin in the table and waits
\* for the write lock of the store, which a load_plugin holds
InvokeAwaitsStore(t) ==
    /\ threads[t].pc = "invoke"
    /\ threads[t].hook \in DOMAIN threads[t].seen[1].functions
    /\ StoreHolders # {}

\* load_plugin of thread u holds the write lock of the store with a record to
\* insert under an id whose entry an invoke holds
LoadAwaitsTable(u) ==
    /\ threads[u].pc = "load"
    /\ \E outside \in Outside :
           LET r == load_plugin(plugins, threads[u].dir, threads[u].path, input.wasi_ok,
                                outside)
           IN ~r.crashed /\ r.res.ok
    /\ Guards(threads[u].path.stem) # {}

\* C39 (does not hold): no state is reached in which an invoke holds its
\* entry of the plugin table while it waits for the lock of the store and a
\* load_plugin holds the lock of the store while it waits to write the
\* plugin table.
C39_NoLockCycle ==
    ~ \E t, u \in Threads :
          /\ InvokeAwaitsStore(t)
          /\ LoadAwaitsTable(u)
          /\ threads[u].path.stem = threads[t].id

\* in such a state neither of the two calls can take its next step
LockCycleIsStuck ==
    \A t, u \in Threads :
        (InvokeAwaitsStore(t) /\ LoadAwaitsTable(u) /\ threads[u].path.stem = threads[t].id)
            => (~ENABLED InvokeCall(t) /\ ~ENABLED LoadInsert(u))

\* an invoke whose hook the record does not map returns without the store,
\* and a load that fails returns without the table
UnmappedInvokeReturns ==
    \A t \in Threads :
        (threads[t].pc = "invoke" /\ threads[t].hook \notin DOMAIN threads[t].seen[1].functions)
            => ENABLED InvokeCall(t)

----------------------------------------------------------------------------
(* Properties of the SSE stream *)

\* the frames of events a subscriber received, heartbeats left out
EventFrames(s) == SelectSeq(threads[s].frames, LAMBDA frame : frame.id.some)

\* their ids, in the order of reception
ReceivedIds(s) == [k \in DOMAIN EventFrames(s) |-> EventFrames(s)[k].id.val]

\* a set of ids in ascending order
Ascending(ids) ==
    CHOOSE l \in [1..Cardinality(ids) -> ids] : \A i, j \in DOMAIN l : i < j => l[i] < l[j]

\* C31 (does not hold): every event a subscriber received through the
\* broker is in the timeline: the timeline holds an event of its kind.
C31_ReceivedIsInTimeline ==
    \A s \in DOMAIN threads :
        \A k \in DOMAIN EventFrames(s) :
            \E j \in DOMAIN timeline : timeline[j].kind.tag = EventFrames(s)[k].event

\* what a subscriber received is command_executed, whose data lists the
\* timeline as it was when the command had been processed: the events of
\* the command were appended before the publication
ReceivedListsTimeline ==
    \A s \in DOMAIN threads :
        \A k \in DOMAIN EventFrames(s) :
            /\ EventFrames(s)[k].event = "command_executed"
            /\ EventFrames(s)[k].data.events # <<>>
            /\ Len(EventFrames(s)[k].data.events) <= Len(timeline)
            /\ EventFrames(s)[k].data.events
                   = SubSeq(timeline, 1, Len(EventFrames(s)[k].data.events))

SubscriberSawCommandExecuted ==
    \E s \in DOMAIN threads :
        /\ EventFrames(s) # <<>>
        /\ \A j \in DOMAIN timeline : timeline[j].kind.tag # "command_executed"

OtherChannelSilent ==
    \E s \in DOMAIN threads :
        /\ threads[s].channels = {"other"}
        /\ threads[s].held = 0
        /\ Len(published) = 2
        /\ threads[s].frames = <<sse_frame(Err("heartbeat"))>>

\* a subscriber without a channel in its query listens to "default"
DefaultChannelReceives ==
    \E s \in DOMAIN threads :
        /\ threads[s].channels = {"default"}
        /\ ReceivedIds(s) # <<>>

\* a command whose publication failed reaches no subscriber
UnpublishedNotReceived ==
    \E s \in DOMAIN threads :
        /\ threads[s].pc = "stream"
        /\ threads[s].held = 0
        /\ threads[s].channels = {"commands"}
        /\ Len(timeline) = 3 * MaxPosted
        /\ Len(published) = 1
        /\ threads[s].cursor = 1

\* the subscriber resumed from an event the broker retained
Resumed(s) ==
    /\ threads[s].pc = "stream"
    /\ threads[s].last_event_id.some
    /\ threads[s].last_event_id.val <= threads[s].held
    /\ threads[s].last_event_id.val > threads[s].held - Retention

TooOldIsLive ==
    \E s \in DOMAIN threads :
        /\ threads[s].last_event_id = Some(1)
        /\ threads[s].held = 3
        /\ threads[s].since = 3

\* the event named was never published: delivery is live from now
UnknownIsLive ==
    \E s \in DOMAIN threads :
        /\ threads[s].last_event_id = Some(3)
        /\ threads[s].held = 1
        /\ threads[s].channels = {"commands"}
        /\ ReceivedIds(s) = <<2>>

====
